---- MODULE Spec2Model ----
(***************************************************************************)
(* koolertawk: a spatial audio chat.                                       *)
(*                                                                         *)
(* Spec        the PartyKit room server (party/index.ts): seats, users,    *)
(*             the signaling relay and the proximity gated chat.           *)
(* SpecClient  one browser client (SpatialAudioChat.tsx): its session map, *)
(*             the negotiation channels, sinks and mixing graphs it made.  *)
(* SpecGain    calculateSpatialGain over the positions of the room.        *)
(* SpecCleanup cleanupAudioConnection with statements that throw.          *)
(* SpecSeats   the gain and the chat range between any two seats.          *)
(* SpecSpatial updateSpatialAudio over the sessions of a joined client.    *)
(* SpecSync    the server and the roomState of the clients it sends to.    *)
(* SpecPair    two clients that join and negotiate through the server.     *)
(***************************************************************************)
EXTENDS Integers, Sequences, FiniteSets

(***************************************************************************)
(* Bounds of the model.                                                    *)
(***************************************************************************)
\* connection ids are 1..MaxConns
MaxConns == 2
\* the seat ids a client names in join/move are the first MaxSeatInputs of
\* SeatPick, plus one id that is no seat
MaxSeatInputs == 3
\* the remote participants one client sees are 1..MaxPeers
MaxPeers == 2
\* the RTCPeerConnections one client creates in a run
MaxChannels == 2
\* the coordinates of the positions the gain is computed for are 0..MaxCoordinate
MaxCoordinate == 90
\* the messages one connection holds that its client has not handled yet
MaxInbox == 2

(***************************************************************************)
(* Program constants.                                                      *)
(***************************************************************************)
rows == 4
cols == 4
MAX_HEARING_DISTANCE == 80

None == 0
Conns == 1..MaxConns

\* `seat-${row}-${col}` is numbered row * cols + col
SeatIds == 0..(rows * cols - 1)
UnknownSeat == rows * cols
SeatRow(id) == id \div cols
SeatCol(id) == id % cols

\* the order in which seat ids enter the inputs: the two opposite corners
\* first (the only pairs of the grid further apart than 80), then neighbours
SeatPick == <<0, 15, 1, 5, 3, 12, 2, 4, 6, 7, 8, 9, 10, 11, 13, 14>>
SeatInputs == {SeatPick[i] : i \in 1..MaxSeatInputs} \cup {UnknownSeat}

SigTypes == {"audio_offer", "audio_answer", "ice_candidate"}

VARIABLES
    conns,      \* room.getConnections(): the ids of the live connections
    users,      \* this.users: Map<string, User>, a function on its keys
    seats,      \* this.seats: Seat[], a function on the seat ids
    out,        \* the messages the last handler sent, in order
    lastCmd,    \* the event the last handler was called with
    missed,     \* the id in the last console.warn "Target user ... not found"
    writes      \* the assignments to seats the last handler made, in order

VARIABLES
    roomUsers,          \* roomState.users of the client: each remote id absent,
                        \* or present with audioEnabled "on" or "off"
    isJoined,           \* isJoined / isJoinedRef
    audioEnabled,       \* audioEnabled / audioEnabledRef / audioTrack.enabled
    audioConnections,   \* audioConnectionsRef.current: Map<string, AudioConnection>
    pcs,                \* every RTCPeerConnection created, in creation order
    sinks,              \* the HTMLAudioElement (and its graph nodes) that the
                        \* ontrack handler of each RTCPeerConnection created
    loop                \* the for..of loop of joinRoom or toggleAudio in progress

VARIABLES
    userPos,            \* currentUser.position, the listener
    otherPos,           \* otherUser.position, the participant that is heard
    gain                \* <<g>> once the gain g of otherPos has been computed

VARIABLES
    teardown            \* the last run of cleanupAudioConnection: the peer, the
                        \* statements it ran, those the record called for

VARIABLES
    spatial             \* what updateSpatialAudio reads and writes: the position
                        \* of currentUserRef.current, the positions in
                        \* roomState.users, the roomState.users in the closure of
                        \* the createPeerConnection in use, and the gain and the
                        \* panner position of each record's nodes

VARIABLES
    inbox,              \* per connection, the messages the server has sent that
                        \* the client has not handled yet, oldest first
    view                \* per connection, roomState of the client behind it

VARIABLES
    pair                \* two clients that negotiate with each other through
                        \* the relay: of each, isJoined, its record of the
                        \* other, its channels, the messages it has sent that
                        \* the server has not handled yet

serverVars == <<conns, users, seats, out, lastCmd, missed, writes>>

clientVars == <<roomUsers, isJoined, audioEnabled, audioConnections, pcs, sinks, loop>>

vars == <<conns, users, seats, out, lastCmd, missed, writes,
          roomUsers, isJoined, audioEnabled, audioConnections, pcs, sinks, loop,
          userPos, otherPos, gain, teardown, spatial, inbox, view, pair>>

gainVars == <<userPos, otherPos, gain>>

cleanupVars == <<teardown>>

spatialVars == <<spatial>>

syncVars == <<inbox, view>>

pairVars == <<pair>>

(***************************************************************************)
(* The room server.                                                        *)
(***************************************************************************)
initializeSeats ==
    [id \in SeatIds |->
        [id |-> id,
         position |-> [x |-> 20 + SeatCol(id) * 20, y |-> 20 + SeatRow(id) * 20],
         occupied |-> FALSE,
         userId |-> None]]

\* Math.sqrt(dx^2 + dy^2) <= d, for integer coordinates and d >= 0, decided
\* on the squares (the square root is monotone, and exact on 6400)
SquaredDistance(pos1, pos2) ==
    (pos2.x - pos1.x) * (pos2.x - pos1.x) + (pos2.y - pos1.y) * (pos2.y - pos1.y)

calculateDistanceAtMost(pos1, pos2, d) == SquaredDistance(pos1, pos2) <= d * d

\* the ids of a set of connections, in ascending order
RECURSIVE SeqOfSet(_)
SeqOfSet(S) ==
    IF S = {} THEN <<>>
    ELSE LET m == CHOOSE x \in S : \A y \in S : x <= y
         IN <<m>> \o SeqOfSet(S \ {m})

MapSeq(s, F(_)) == [i \in 1..Len(s) |-> F(s[i])]

getUsersInRangeIncludesSelf(us, user) ==
    {o \in DOMAIN us :
        /\ us[o].audioEnabled
        /\ calculateDistanceAtMost(user.position, us[o].position, MAX_HEARING_DISTANCE)}

getUsersInRangeNoAudioCheck(us, user) ==
    {o \in DOMAIN us :
        /\ o # user.id
        /\ calculateDistanceAtMost(user.position, us[o].position, MAX_HEARING_DISTANCE)}

getUsersInRange(us, user) ==
    {o \in DOMAIN us :
        /\ o # user.id
        /\ us[o].audioEnabled
        /\ calculateDistanceAtMost(user.position, us[o].position, MAX_HEARING_DISTANCE)}

RoomStateMsg(to, ss, us) ==
    [type |-> "room_state", to |-> to, seats |-> ss, users |-> us]

ErrorMsg(to) == [type |-> "error", to |-> to, message |-> "Seat not available"]

broadcastRoomStateOccupiedSeatsOnly(cs, ss, us) ==
    MapSeq(SeqOfSet(cs),
           LAMBDA c : RoomStateMsg(c, [x \in {y \in DOMAIN ss : ss[y].occupied} |-> ss[x]], us))

\* room.broadcast: one room_state to every live connection
broadcastRoomState(cs, ss, us) ==
    MapSeq(SeqOfSet(cs), LAMBDA c : RoomStateMsg(c, ss, us))

SendToEveryone(cs, id, m) ==
    IF id \in cs THEN MapSeq(SeqOfSet(cs), LAMBDA c : [m EXCEPT !.to = c]) ELSE <<>>

\* room.getConnection(id)?.send(m)
SendTo(cs, id, m) == IF id \in cs THEN <<m>> ELSE <<>>

Cmd(kind, sender) ==
    [kind |-> kind, sender |-> sender, hasPayload |-> TRUE, seatId |-> UnknownSeat,
     sigType |-> "", targetUserId |-> None, fromUserId |-> None]

\* seat.occupied = occupied; seat.userId = userId
SeatWrite(seatId, occupied, userId) ==
    [seat |-> seatId, occupied |-> occupied, userId |-> userId]

\* this.seats after the assignments ws, made in that order
RECURSIVE ApplyWrites(_, _)
ApplyWrites(ss, ws) ==
    IF ws = <<>> THEN ss
    ELSE ApplyWrites([ss EXCEPT ![Head(ws).seat].occupied = Head(ws).occupied,
                                ![Head(ws).seat].userId = Head(ws).userId],
                     Tail(ws))

MapSet(f, k, v) == [x \in DOMAIN f \cup {k} |-> IF x = k THEN v ELSE f[x]]
MapDelete(f, k) == [x \in DOMAIN f \ {k} |-> f[x]]

InitServerVars ==
    /\ conns = {}
    /\ users = << >>
    /\ seats = initializeSeats
    /\ out = <<>>
    /\ lastCmd = Cmd("idle", None)
    /\ missed = None
    /\ writes = <<>>

Peers == 1..MaxPeers

NoLoop == [kind |-> "none", todo |-> {}, cur |-> 0]

InitClientVars ==
    /\ roomUsers = [q \in Peers |-> "absent"]
    /\ isJoined = FALSE
    /\ audioEnabled = TRUE
    /\ audioConnections = << >>
    /\ pcs = <<>>
    /\ sinks = <<>>
    /\ loop = NoLoop

\* nobody is heard yet: the listener and the other participant are at seat-0-0
InitGainVars ==
    /\ userPos = initializeSeats[0].position
    /\ otherPos = initializeSeats[0].position
    /\ gain = <<>>

\* cleanupAudioConnection has not run
NoTeardown == [userId |-> None, attempted |-> {}, steps |-> {}, again |-> FALSE]

InitCleanupVars == teardown = NoTeardown

\* before the join: no current user (its position is read from seat-0-0
\* on), an empty roomState.users, no nodes
InitSpatialVars ==
    spatial = [position |-> initializeSeats[0].position, users |-> << >>,
               closure |-> << >>, nodes |-> << >>, last |-> "none"]

\* useState<RoomState>({ seats: [], users: [] })
NoView == [seats |-> << >>, users |-> << >>]

InitSyncVars ==
    /\ inbox = [c \in Conns |-> <<>>]
    /\ view = [c \in Conns |-> NoView]

\* the two clients of the negotiation
Pair == {1, 2}

\* stage: "idle", "media" while joinRoom awaits getUserMedia, then "joined";
\* closure: the audio enabled participants in the roomState.users that the
\* running joinRoom closed over; record: the channel in the record of the
\* other client, 0 without a record
NoClient ==
    [isJoined |-> FALSE, stage |-> "idle", closure |-> {}, record |-> 0,
     chans |-> <<>>, up |-> <<>>]

InitPairVars == pair = [i \in Pair |-> NoClient]

Init ==
    /\ InitServerVars
    /\ InitClientVars
    /\ InitGainVars
    /\ InitCleanupVars
    /\ InitSpatialVars
    /\ InitSyncVars
    /\ InitPairVars

onConnectBroadcasts(conn) ==
    /\ conn \notin conns
    /\ conns' = conns \cup {conn}
    /\ out' = broadcastRoomState(conns', seats, users)
    /\ lastCmd' = Cmd("connect", conn)
    /\ writes' = <<>>
    /\ UNCHANGED <<users, seats, missed>>

onConnectReplay(conn) ==
    /\ conn \notin conns
    /\ conns' = conns \cup {conn}
    /\ out' = <<RoomStateMsg(conn, seats, users)>>
              \o (IF conn = missed
                  THEN <<[type |-> "audio_offer", to |-> conn, fromUserId |-> None]>>
                  ELSE <<>>)
    /\ lastCmd' = Cmd("connect", conn)
    /\ writes' = <<>>
    /\ UNCHANGED <<users, seats, missed>>

onConnect(conn) ==
    /\ conn \notin conns
    /\ conns' = conns \cup {conn}
    /\ out' = <<RoomStateMsg(conn, seats, users)>>
    /\ lastCmd' = Cmd("connect", conn)
    /\ writes' = <<>>
    /\ UNCHANGED <<users, seats, missed>>

\* onMessage with a text that JSON.parse rejects (the catch logs it), or with
\* a type that no case of the switch names
onMessageIgnored(sender, kind) ==
    /\ sender \in conns
    /\ out' = <<>>
    /\ lastCmd' = [Cmd(kind, sender) EXCEPT !.hasPayload = FALSE]
    /\ writes' = <<>>
    /\ UNCHANGED <<conns, users, seats, missed>>

NoPayloadAnswersError(sender, kind) ==
    /\ sender \in conns
    /\ out' = SendTo(conns, sender, ErrorMsg(sender))
    /\ lastCmd' = [Cmd(kind, sender) EXCEPT !.hasPayload = FALSE]
    /\ writes' = <<>>
    /\ UNCHANGED <<conns, users, seats, missed>>

\* onMessage with a type whose handler needs data.payload, sent without one
\* (join, move, chat: the switch does nothing; signaling: line 232 returns)
NoPayload(sender, kind) ==
    /\ sender \in conns
    /\ out' = <<>>
    /\ lastCmd' = [Cmd(kind, sender) EXCEPT !.hasPayload = FALSE]
    /\ writes' = <<>>
    /\ UNCHANGED <<conns, users, seats, missed>>

handleUserJoinNoOccupiedCheck(userId, seatId) ==
    /\ userId \in conns
    /\ lastCmd' = [Cmd("join", userId) EXCEPT !.seatId = seatId]
    /\ IF seatId \notin SeatIds
       THEN /\ out' = SendTo(conns, userId, ErrorMsg(userId))
            /\ writes' = <<>>
            /\ UNCHANGED <<users, seats>>
       ELSE /\ writes' = <<SeatWrite(seatId, TRUE, userId)>>
            /\ seats' = ApplyWrites(seats, writes')
            /\ users' = MapSet(users, userId,
                               [id |-> userId,
                                position |-> seats[seatId].position,
                                seatId |-> seatId,
                                audioEnabled |-> TRUE])
            /\ out' = broadcastRoomState(conns, seats', users')
    /\ UNCHANGED <<conns, missed>>

handleUserJoinBroadcastsOldState(userId, seatId) ==
    /\ userId \in conns
    /\ lastCmd' = [Cmd("join", userId) EXCEPT !.seatId = seatId]
    /\ IF seatId \notin SeatIds \/ seats[seatId].occupied
       THEN /\ out' = SendTo(conns, userId, ErrorMsg(userId))
            /\ writes' = <<>>
            /\ UNCHANGED <<users, seats>>
       ELSE /\ writes' = <<SeatWrite(seatId, TRUE, userId)>>
            /\ seats' = ApplyWrites(seats, writes')
            /\ users' = MapSet(users, userId,
                               [id |-> userId,
                                position |-> seats[seatId].position,
                                seatId |-> seatId,
                                audioEnabled |-> TRUE])
            /\ out' = broadcastRoomState(conns, seats, users)
    /\ UNCHANGED <<conns, missed>>

handleUserJoin(userId, seatId) ==
    /\ userId \in conns
    /\ lastCmd' = [Cmd("join", userId) EXCEPT !.seatId = seatId]
    /\ IF seatId \notin SeatIds \/ seats[seatId].occupied
       THEN /\ out' = SendTo(conns, userId, ErrorMsg(userId))
            /\ writes' = <<>>
            /\ UNCHANGED <<users, seats>>
       ELSE /\ writes' = <<SeatWrite(seatId, TRUE, userId)>>
            /\ seats' = ApplyWrites(seats, writes')
            /\ users' = MapSet(users, userId,
                               [id |-> userId,
                                position |-> seats[seatId].position,
                                seatId |-> seatId,
                                audioEnabled |-> TRUE])
            /\ out' = broadcastRoomState(conns, seats', users')
    /\ UNCHANGED <<conns, missed>>

handleUserMoveBroadcastOnReject(userId, seatId) ==
    /\ userId \in conns
    /\ lastCmd' = [Cmd("move", userId) EXCEPT !.seatId = seatId]
    /\ IF userId \notin DOMAIN users
       THEN /\ out' = <<>>
            /\ writes' = <<>>
            /\ UNCHANGED <<users, seats>>
       ELSE IF seatId \notin SeatIds \/ seats[seatId].occupied
       THEN /\ out' = broadcastRoomState(conns, seats, users)
            /\ writes' = <<>>
            /\ UNCHANGED <<users, seats>>
       ELSE /\ writes' = <<SeatWrite(users[userId].seatId, FALSE, None),
                            SeatWrite(seatId, TRUE, userId)>>
            /\ seats' = ApplyWrites(seats, writes')
            /\ users' = [users EXCEPT ![userId].position = seats[seatId].position,
                                      ![userId].seatId = seatId]
            /\ out' = broadcastRoomState(conns, seats', users')
    /\ UNCHANGED <<conns, missed>>

handleUserMoveKeepsPosition(userId, seatId) ==
    /\ userId \in conns
    /\ lastCmd' = [Cmd("move", userId) EXCEPT !.seatId = seatId]
    /\ IF userId \notin DOMAIN users
       THEN /\ out' = <<>>
            /\ writes' = <<>>
            /\ UNCHANGED <<users, seats>>
       ELSE IF seatId \notin SeatIds \/ seats[seatId].occupied
       THEN /\ out' = SendTo(conns, userId, ErrorMsg(userId))
            /\ writes' = <<>>
            /\ UNCHANGED <<users, seats>>
       ELSE /\ writes' = <<SeatWrite(users[userId].seatId, FALSE, None),
                            SeatWrite(seatId, TRUE, userId)>>
            /\ seats' = ApplyWrites(seats, writes')
            /\ users' = [users EXCEPT ![userId].seatId = seatId]
            /\ out' = broadcastRoomState(conns, seats', users')
    /\ UNCHANGED <<conns, missed>>

handleUserMoveKeepsOldSeat(userId, seatId) ==
    /\ userId \in conns
    /\ lastCmd' = [Cmd("move", userId) EXCEPT !.seatId = seatId]
    /\ IF userId \notin DOMAIN users
       THEN /\ out' = <<>>
            /\ writes' = <<>>
            /\ UNCHANGED <<users, seats>>
       ELSE IF seatId \notin SeatIds \/ seats[seatId].occupied
       THEN /\ out' = SendTo(conns, userId, ErrorMsg(userId))
            /\ writes' = <<>>
            /\ UNCHANGED <<users, seats>>
       ELSE /\ writes' = <<SeatWrite(seatId, TRUE, userId)>>
            /\ seats' = ApplyWrites(seats, writes')
            /\ users' = [users EXCEPT ![userId].position = seats[seatId].position,
                                      ![userId].seatId = seatId]
            /\ out' = broadcastRoomState(conns, seats', users')
    /\ UNCHANGED <<conns, missed>>

handleUserMove(userId, seatId) ==
    /\ userId \in conns
    /\ lastCmd' = [Cmd("move", userId) EXCEPT !.seatId = seatId]
    /\ IF userId \notin DOMAIN users
       THEN /\ out' = <<>>
            /\ writes' = <<>>
            /\ UNCHANGED <<users, seats>>
       ELSE IF seatId \notin SeatIds \/ seats[seatId].occupied
       THEN /\ out' = SendTo(conns, userId, ErrorMsg(userId))
            /\ writes' = <<>>
            /\ UNCHANGED <<users, seats>>
       ELSE /\ writes' = <<SeatWrite(users[userId].seatId, FALSE, None),
                            SeatWrite(seatId, TRUE, userId)>>
            /\ seats' = ApplyWrites(seats, writes')
            /\ users' = [users EXCEPT ![userId].position = seats[seatId].position,
                                      ![userId].seatId = seatId]
            /\ out' = broadcastRoomState(conns, seats', users')
    /\ UNCHANGED <<conns, missed>>

\* the relayed message: {...data, payload: {...webrtcPayload, fromUserId: userId}}
RelayedPayloadSpreadLast(userId, sigType, targetUserId, fromUserId) ==
    [type |-> sigType, to |-> targetUserId,
     fromUserId |-> IF fromUserId # None THEN fromUserId ELSE userId]

RelayedPayload(userId, sigType, targetUserId, fromUserId) ==
    [type |-> sigType, to |-> targetUserId, fromUserId |-> userId]

handleWebRTCSignalingDropAnswers(userId, sigType, targetUserId, fromUserId) ==
    /\ userId \in conns
    /\ lastCmd' = [Cmd("signal", userId) EXCEPT !.sigType = sigType,
                                               !.targetUserId = targetUserId,
                                               !.fromUserId = fromUserId]
    /\ IF userId \notin DOMAIN users
       THEN /\ out' = <<>>
            /\ UNCHANGED missed
       ELSE IF targetUserId \in conns /\ sigType = "audio_offer"
       THEN /\ out' = <<RelayedPayload(userId, sigType, targetUserId, fromUserId)>>
            /\ UNCHANGED missed
       ELSE /\ out' = <<>>
            /\ missed' = targetUserId
    /\ writes' = <<>>
    /\ UNCHANGED <<conns, users, seats>>

\* both arms of the switch (offer; answer and candidate) do the same
handleWebRTCSignaling(userId, sigType, targetUserId, fromUserId) ==
    /\ userId \in conns
    /\ lastCmd' = [Cmd("signal", userId) EXCEPT !.sigType = sigType,
                                               !.targetUserId = targetUserId,
                                               !.fromUserId = fromUserId]
    /\ IF userId \notin DOMAIN users
       THEN /\ out' = <<>>
            /\ UNCHANGED missed
       ELSE IF targetUserId \in conns
       THEN /\ out' = <<RelayedPayload(userId, sigType, targetUserId, fromUserId)>>
            /\ UNCHANGED missed
       ELSE /\ out' = <<>>
            /\ missed' = targetUserId
    /\ writes' = <<>>
    /\ UNCHANGED <<conns, users, seats>>

handleToggleAudioOnlyMutes(userId) ==
    /\ userId \in conns
    /\ lastCmd' = Cmd("toggle_audio", userId)
    /\ IF userId \notin DOMAIN users
       THEN /\ out' = <<>>
            /\ UNCHANGED users
       ELSE /\ users' = [users EXCEPT ![userId].audioEnabled = FALSE]
            /\ out' = broadcastRoomState(conns, seats, users')
    /\ writes' = <<>>
    /\ UNCHANGED <<conns, seats, missed>>

handleToggleAudio(userId) ==
    /\ userId \in conns
    /\ lastCmd' = Cmd("toggle_audio", userId)
    /\ IF userId \notin DOMAIN users
       THEN /\ out' = <<>>
            /\ UNCHANGED users
       ELSE /\ users' = [users EXCEPT ![userId].audioEnabled = ~@]
            /\ out' = broadcastRoomState(conns, seats, users')
    /\ writes' = <<>>
    /\ UNCHANGED <<conns, seats, missed>>

ChatMsg(to, user) ==
    [type |-> "chat_message", to |-> to, userId |-> user.id, position |-> user.position]

handleChatMessageBroadcasts(userId) ==
    /\ userId \in conns
    /\ lastCmd' = Cmd("chat", userId)
    /\ IF userId \notin DOMAIN users
       THEN out' = <<>>
       ELSE LET user == users[userId]
            IN out' = SendTo(conns, userId, ChatMsg(userId, user))
                      \o broadcastRoomState(conns, seats, users)
    /\ writes' = <<>>
    /\ UNCHANGED <<conns, users, seats, missed>>

handleChatMessage(userId) ==
    /\ userId \in conns
    /\ lastCmd' = Cmd("chat", userId)
    /\ IF userId \notin DOMAIN users
       THEN out' = <<>>
       ELSE LET user == users[userId]
                usersInRange == getUsersInRange(users, user)
            IN out' = MapSeq(SeqOfSet(usersInRange \cap conns),
                             LAMBDA c : ChatMsg(c, user))
                      \o SendTo(conns, userId, ChatMsg(userId, user))
    /\ writes' = <<>>
    /\ UNCHANGED <<conns, users, seats, missed>>

\* the connection is gone from room.getConnections() when onClose runs
onClose(conn) ==
    /\ conn \in conns
    /\ conns' = conns \ {conn}
    /\ lastCmd' = Cmd("close", conn)
    /\ writes' = IF conn \in DOMAIN users
                 THEN <<SeatWrite(users[conn].seatId, FALSE, None)>>
                 ELSE <<>>
    /\ seats' = ApplyWrites(seats, writes')
    /\ users' = MapDelete(users, conn)
    /\ out' = broadcastRoomState(conns', seats', users')
    /\ UNCHANGED missed

\* the server handles one event to completion at a time: a handler runs
\* when the previous one has returned and its messages are on the wire
Idle == lastCmd.kind = "idle"

Return ==
    /\ ~Idle
    /\ lastCmd' = Cmd("idle", None)
    /\ out' = <<>>
    /\ writes' = <<>>
    /\ UNCHANGED <<conns, users, seats, missed>>

Next ==
    \/ \E c \in Conns : Idle /\ onConnect(c) /\ UNCHANGED <<clientVars, gainVars, cleanupVars, spatialVars, syncVars, pairVars>>
    \/ \E c \in Conns, k \in {"join", "move", "chat", "signal"} :
          Idle /\ NoPayload(c, k) /\ UNCHANGED <<clientVars, gainVars, cleanupVars, spatialVars, syncVars, pairVars>>
    \/ \E c \in Conns, k \in {"not_json", "unknown_type"} :
          Idle /\ onMessageIgnored(c, k) /\ UNCHANGED <<clientVars, gainVars, cleanupVars, spatialVars, syncVars, pairVars>>
    \/ \E c \in Conns, s \in SeatInputs : Idle /\ handleUserJoin(c, s) /\ UNCHANGED <<clientVars, gainVars, cleanupVars, spatialVars, syncVars, pairVars>>
    \/ \E c \in Conns, s \in SeatInputs : Idle /\ handleUserMove(c, s) /\ UNCHANGED <<clientVars, gainVars, cleanupVars, spatialVars, syncVars, pairVars>>
    \/ \E c \in Conns, t \in SigTypes, target \in Conns :
          \E from \in {None, target} :
             Idle /\ handleWebRTCSignaling(c, t, target, from) /\ UNCHANGED <<clientVars, gainVars, cleanupVars, spatialVars, syncVars, pairVars>>
    \/ \E c \in Conns : Idle /\ handleToggleAudio(c) /\ UNCHANGED <<clientVars, gainVars, cleanupVars, spatialVars, syncVars, pairVars>>
    \/ \E c \in Conns : Idle /\ handleChatMessage(c) /\ UNCHANGED <<clientVars, gainVars, cleanupVars, spatialVars, syncVars, pairVars>>
    \/ \E c \in Conns : Idle /\ onClose(c) /\ UNCHANGED <<clientVars, gainVars, cleanupVars, spatialVars, syncVars, pairVars>>
    \/ Return /\ UNCHANGED <<clientVars, gainVars, cleanupVars, spatialVars, syncVars, pairVars>>

Spec == Init /\ [][Next]_vars

(***************************************************************************)
(* The client (SpatialAudioChat): sessions, channels, sinks.               *)
(*                                                                         *)
(* An async function is one action per stretch between two awaits that     *)
(* another handler can interleave with.  The client state that the helpers *)
(* below transform is the record st = [ac, pcs, sinks] of the session map, *)
(* the channels and the sinks.                                             *)
(***************************************************************************)
St == [ac |-> audioConnections, pcs |-> pcs, sinks |-> sinks]

\* no HTMLAudioElement made by ontrack yet
NoSink ==
    [created |-> FALSE, srcObject |-> FALSE, playing |-> FALSE, muted |-> FALSE,
     sourceConn |-> FALSE, pannerConn |-> FALSE, gainConn |-> FALSE]

\* cleanupAudioConnection(userId, reason): nothing without a record;
\* otherwise pause and detach the record's audio element, disconnect the
\* nodes the record holds, close its peer connection, delete the record.
\* el = 0 is the placeholder new Audio() of createPeerConnection.
cleanupAudioConnectionKeepsSinkAttached(st, userId) ==
    IF userId \notin DOMAIN st.ac THEN st
    ELSE LET c == st.ac[userId]
             sk == IF c.el = 0 THEN st.sinks
                   ELSE [st.sinks EXCEPT
                           ![c.el].playing = FALSE,
                           ![c.el].sourceConn = IF c.source THEN FALSE ELSE @,
                           ![c.el].pannerConn = IF c.pannerNode THEN FALSE ELSE @,
                           ![c.el].gainConn = IF c.gainNode THEN FALSE ELSE @]
         IN [ac |-> MapDelete(st.ac, userId),
             pcs |-> [st.pcs EXCEPT ![c.pc].open = FALSE],
             sinks |-> sk]

cleanupAudioConnection(st, userId) ==
    IF userId \notin DOMAIN st.ac THEN st
    ELSE LET c == st.ac[userId]
             sk == IF c.el = 0 THEN st.sinks
                   ELSE [st.sinks EXCEPT
                           ![c.el].playing = FALSE,
                           ![c.el].srcObject = FALSE,
                           ![c.el].sourceConn = IF c.source THEN FALSE ELSE @,
                           ![c.el].pannerConn = IF c.pannerNode THEN FALSE ELSE @,
                           ![c.el].gainConn = IF c.gainNode THEN FALSE ELSE @]
         IN [ac |-> MapDelete(st.ac, userId),
             pcs |-> [st.pcs EXCEPT ![c.pc].open = FALSE],
             sinks |-> sk]

\* the functions that call createPeerConnection; only handleSignaling
\* answers an offer, the others make one
Callers == {"handleMessage", "handleSignaling", "joinRoom", "toggleAudio"}

Role(caller) == IF caller = "handleSignaling" THEN "answerer" ELSE "offerer"

\* the socket that the caller's closure holds: handleMessage is made once,
\* by the effect of the first render (empty dependency array), where the
\* state variable socket is still null; the others see the open socket
SocketOf(caller) == caller # "handleMessage"

\* createPeerConnection up to its first await: a new RTCPeerConnection, and
\* a placeholder record that replaces whatever record the map held
createPeerConnection(st, userId, caller) ==
    LET id == Len(st.pcs) + 1
        role == Role(caller)
    IN [ac |-> MapSet(st.ac, userId,
                      [pc |-> id, el |-> 0, source |-> FALSE, gainNode |-> FALSE,
                       pannerNode |-> FALSE, usingWebAudio |-> FALSE,
                       connectionType |-> "none"]),
        pcs |-> Append(st.pcs,
                       [userId |-> userId, open |-> TRUE, role |-> role,
                        caller |-> caller, offerSent |-> FALSE, lost |-> FALSE,
                        stage |-> "new", remote |-> FALSE, track |-> "none"]),
        sinks |-> Append(st.sinks, NoSink)]

RECURSIVE createPeerConnections(_, _, _)
createPeerConnections(st, ids, caller) ==
    IF ids = {} THEN st
    ELSE LET q == CHOOSE x \in ids : \A y \in ids : x <= y
         IN createPeerConnections(createPeerConnection(st, q, caller), ids \ {q}, caller)

SetSt(st) ==
    /\ audioConnections' = st.ac
    /\ pcs' = st.pcs
    /\ sinks' = st.sinks

Room(n) == Len(pcs) + n <= MaxChannels

\* handleMessage, case "room_state", with the snapshot in which remote
\* participant q is now v: an offer is prepared for every audio enabled
\* participant without a record; no record is ever removed here
RoomState(q, v) ==
    \* a participant joins with audio enabled (handleUserJoin)
    /\ (roomUsers[q] = "absent") => (v # "off")
    /\ LET snapshot == [roomUsers EXCEPT ![q] = v]
           newUsers == IF isJoined /\ audioEnabled
                       THEN {u \in Peers : snapshot[u] = "on" /\ u \notin DOMAIN audioConnections}
                       ELSE {}
       IN /\ Room(Cardinality(newUsers))
          /\ roomUsers' = snapshot
          /\ SetSt(createPeerConnections(St, newUsers, "handleMessage"))
          /\ UNCHANGED <<isJoined, audioEnabled, loop>>

\* the rest of createPeerConnection and of its caller, after the await of
\* initializeAudioContext: either it throws (the caller logs the error; the
\* ontrack handler was never attached), or the handlers are attached and the
\* offer, or for an answerer the remote offer and the answer, are applied.
\* createOffer and setRemoteDescription reject on a closed connection.
\* The offer is sent if the socket of the caller's closure is there.
Negotiate(pc, ok) ==
    /\ pc \in 1..Len(pcs)
    /\ pcs[pc].stage = "new"
    /\ ok => pcs[pc].open
    /\ pcs' = [pcs EXCEPT ![pc].stage = IF ok THEN "ready" ELSE "failed",
                          ![pc].remote = ok /\ pcs[pc].role = "answerer",
                          ![pc].offerSent = /\ ok
                                            /\ pcs[pc].role = "offerer"
                                            /\ SocketOf(pcs[pc].caller)]
    /\ UNCHANGED <<roomUsers, isJoined, audioEnabled, audioConnections, sinks, loop>>

\* handleSignaling, case "audio_offer" from q. The relay forwards offers of
\* participants only, to participants they see, and every connection gets
\* its messages in order: q is in the last snapshot, audio enabled or not
\* (toggleAudio sends its offers before its toggle_audio).
AudioOffer(q) ==
    /\ isJoined
    /\ roomUsers[q] # "absent"
    /\ Room(1)
    /\ SetSt(createPeerConnection(St, q, "handleSignaling"))
    /\ UNCHANGED <<roomUsers, isJoined, audioEnabled, loop>>

\* handleSignaling, case "audio_answer" from q: setRemoteDescription on the
\* peer connection of q's record (it throws on a closed one; that is logged).
\* q answers an offer that it was sent.
AudioAnswer(q) ==
    /\ q \in DOMAIN audioConnections
    /\ \E p \in 1..Len(pcs) : pcs[p].userId = q /\ pcs[p].offerSent
    /\ LET pc == audioConnections[q].pc
       IN /\ pcs[pc].role = "offerer"
          /\ pcs[pc].stage = "ready"
          /\ pcs[pc].open
          /\ ~pcs[pc].remote
          /\ pcs' = [pcs EXCEPT ![pc].remote = TRUE]
    /\ UNCHANGED <<roomUsers, isJoined, audioEnabled, audioConnections, sinks, loop>>

\* cleanupAudioConnection for each of the peers ids
RECURSIVE cleanupEvery(_, _)
cleanupEvery(st, ids) ==
    IF ids = {} THEN st
    ELSE LET q == CHOOSE x \in ids : TRUE
         IN cleanupEvery(cleanupAudioConnection(st, q), ids \ {q})

ConnectionFailedCleansEveryPeer(pc) ==
    /\ pc \in 1..Len(pcs)
    /\ pcs[pc].open
    /\ ~pcs[pc].lost
    /\ SetSt(cleanupEvery([St EXCEPT !.pcs[pc].lost = TRUE], DOMAIN audioConnections))
    /\ UNCHANGED <<roomUsers, isJoined, audioEnabled, loop>>

\* pc.onconnectionstatechange with "failed" or "disconnected": the record
\* that the map holds for the peer of pc is cleaned up
ConnectionFailed(pc) ==
    /\ pc \in 1..Len(pcs)
    /\ pcs[pc].open
    /\ ~pcs[pc].lost
    /\ SetSt(cleanupAudioConnection([St EXCEPT !.pcs[pc].lost = TRUE], pcs[pc].userId))
    /\ UNCHANGED <<roomUsers, isJoined, audioEnabled, loop>>

\* pc.ontrack up to the await of audioElement.play(): the record the map
\* holds for the peer is cleaned up, a fresh element gets the stream
OnTrackStart(pc) ==
    /\ pc \in 1..Len(pcs)
    /\ pcs[pc].open
    /\ pcs[pc].stage = "ready"
    /\ pcs[pc].remote
    /\ pcs[pc].track = "none"
    /\ LET st == cleanupAudioConnection(St, pcs[pc].userId)
       IN /\ audioConnections' = st.ac
          /\ pcs' = [st.pcs EXCEPT ![pc].track = "playing"]
          /\ sinks' = [st.sinks EXCEPT ![pc] = [NoSink EXCEPT !.created = TRUE,
                                                              !.srcObject = TRUE]]
    /\ UNCHANGED <<roomUsers, isJoined, audioEnabled, loop>>

\* the calls of ontrack that can throw or reject: audioElement.play(),
\* createMediaElementSource, the panner path (createPanner, createGain, the
\* three connects), the basic path (createGain, the two connects), the
\* dummy createGain of the direct fallback, setValueAtTime of step 6
Capabilities == {"play", "source", "spatial", "basic", "dummyGain", "initialGain"}

\* how ontrack ends when exactly the calls of can succeed: the panner path is
\* tried first, its catch builds the basic path, the catch of the outer
\* graph try falls back to direct playback and creates the dummy gain node;
\* whatever throws outside these tries reaches the catch of line 700
GraphOutcome(can) ==
    IF "play" \notin can THEN "playRejected"
    ELSE IF "source" \in can /\ ({"spatial", "basic"} \cap can) # {}
         THEN IF "initialGain" \notin can THEN "initialGainThrows"
              ELSE IF "spatial" \in can THEN "spatial" ELSE "basic"
         ELSE IF "dummyGain" \in can THEN "direct" ELSE "dummyGainThrows"

\* the rendering modes the graph building of ontrack can end in, and the
\* points its outer try can fail at
Outcomes == {GraphOutcome(can) : can \in SUBSET Capabilities}

\* the record ontrack stores (step 5) for a mode
Stored(pc, mode) ==
    [pc |-> pc, el |-> pc,
     source |-> mode \in {"spatial", "basic"},
     gainNode |-> TRUE,
     pannerNode |-> mode = "spatial",
     usingWebAudio |-> mode \in {"spatial", "basic"},
     connectionType |-> mode]

\* a variant that mutes the element in every mode
BuiltAlwaysMuted(mode) ==
    [created |-> TRUE, srcObject |-> TRUE, playing |-> TRUE,
     muted |-> TRUE,
     sourceConn |-> mode \in {"spatial", "basic"},
     pannerConn |-> mode = "spatial",
     gainConn |-> mode \in {"spatial", "basic"}]

\* the element and its nodes after play() resolved and the graph was built
\* for a mode: the element is muted once a graph is connected; the direct
\* fallback disconnects what was built and keeps the element unmuted
Built(mode) ==
    [created |-> TRUE, srcObject |-> TRUE, playing |-> TRUE,
     muted |-> mode \in {"spatial", "basic"},
     sourceConn |-> mode \in {"spatial", "basic"},
     pannerConn |-> mode = "spatial",
     gainConn |-> mode \in {"spatial", "basic"}]

\* pc.ontrack from the await of audioElement.play() to its end
OnTrackFinish(pc, outcome) ==
    /\ pc \in 1..Len(pcs)
    /\ pcs[pc].track = "playing"
    /\ LET userId == pcs[pc].userId
       IN CASE outcome = "playRejected" ->
                 \* play() rejects: the catch of line 700 cleans up by user id
                 LET st == cleanupAudioConnection(St, userId)
                 IN SetSt([st EXCEPT !.pcs[pc].track = "failed"])
            [] outcome = "dummyGainThrows" ->
                 \* the graph could not be built and createGain of line 662
                 \* throws as well: the element plays unmuted, nothing is stored
                 LET played == [St EXCEPT !.sinks[pc] = Built("direct")]
                     st == cleanupAudioConnection(played, userId)
                 IN SetSt([st EXCEPT !.pcs[pc].track = "failed"])
            [] outcome = "initialGainThrows" ->
                 \* a graph was built and the record stored; setValueAtTime
                 \* of line 681 throws
                 LET stored == [St EXCEPT !.sinks[pc] = Built("basic"),
                                          !.ac = MapSet(St.ac, userId, Stored(pc, "basic"))]
                     st == cleanupAudioConnection(stored, userId)
                 IN SetSt([st EXCEPT !.pcs[pc].track = "failed"])
            [] OTHER ->
                 SetSt([St EXCEPT !.sinks[pc] = Built(outcome),
                                  !.ac = MapSet(St.ac, userId, Stored(pc, outcome)),
                                  !.pcs[pc].track = "attached"])
    /\ UNCHANGED <<roomUsers, isJoined, audioEnabled, loop>>

\* joinRoom: after getUserMedia and initializeAudioContext the join is sent,
\* currentUser and isJoined are set, and the loop over the audio enabled
\* users of roomState starts
JoinRoom ==
    /\ ~isJoined
    /\ loop.kind = "none"
    /\ isJoined' = TRUE
    /\ loop' = [kind |-> "join", todo |-> {u \in Peers : roomUsers[u] = "on"}, cur |-> 0]
    /\ UNCHANGED <<roomUsers, audioEnabled, audioConnections, pcs, sinks>>

\* toggleAudio up to its first await: the track and audioEnabled are
\* flipped; when audio is re-enabled the loop over the audio enabled users
\* of roomState starts, otherwise toggle_audio is sent at once
ToggleAudio ==
    /\ isJoined
    /\ loop.kind = "none"
    /\ audioEnabled' = ~audioEnabled
    /\ loop' = IF ~audioEnabled
               THEN [kind |-> "toggle", todo |-> {u \in Peers : roomUsers[u] = "on"}, cur |-> 0]
               ELSE NoLoop
    /\ UNCHANGED <<roomUsers, isJoined, audioConnections, pcs, sinks>>

\* toggleAudio closes the record it finds before it renegotiates: the peer
\* connection is closed, the element paused, the record deleted
closeExisting(st, userId) ==
    IF userId \notin DOMAIN st.ac THEN st
    ELSE LET c == st.ac[userId]
         IN [ac |-> MapDelete(st.ac, userId),
             pcs |-> [st.pcs EXCEPT ![c.pc].open = FALSE],
             sinks |-> IF c.el = 0 THEN st.sinks
                       ELSE [st.sinks EXCEPT ![c.el].playing = FALSE]]

\* the awaits of the loop's current iteration are over
CurDone == IF loop.cur = 0 THEN TRUE ELSE pcs[loop.cur].stage # "new"

\* one iteration of the loop of joinRoom or toggleAudio, up to the await in
\* createPeerConnection; the next one starts when the awaits of this one
\* (Negotiate) are over
LoopStep(q) ==
    /\ loop.kind \in {"join", "toggle"}
    /\ q \in loop.todo
    /\ CurDone
    /\ Room(1)
    /\ LET before == IF loop.kind = "toggle" THEN closeExisting(St, q) ELSE St
           st == createPeerConnection(before, q, IF loop.kind = "toggle"
                                                 THEN "toggleAudio" ELSE "joinRoom")
       IN /\ SetSt(st)
          /\ loop' = [loop EXCEPT !.todo = @ \ {q}, !.cur = Len(st.pcs)]
    /\ UNCHANGED <<roomUsers, isJoined, audioEnabled>>

\* the loop is over (toggleAudio then sends toggle_audio)
LoopEnd ==
    /\ loop.kind \in {"join", "toggle"}
    /\ loop.todo = {}
    /\ CurDone
    /\ loop' = [kind |-> IF loop.kind = "toggle" THEN "unmuted" ELSE "joined",
                todo |-> {}, cur |-> 0]
    /\ UNCHANGED <<roomUsers, isJoined, audioEnabled, audioConnections, pcs, sinks>>

\* the async function has returned
LoopReturn ==
    /\ loop.kind \in {"unmuted", "joined"}
    /\ loop' = NoLoop
    /\ UNCHANGED <<roomUsers, isJoined, audioEnabled, audioConnections, pcs, sinks>>

NextClient ==
    \/ \E q \in Peers, v \in {"absent", "on", "off"} : RoomState(q, v) /\ UNCHANGED <<serverVars, gainVars, cleanupVars, spatialVars, syncVars, pairVars>>
    \/ \E pc \in 1..MaxChannels, ok \in BOOLEAN : Negotiate(pc, ok) /\ UNCHANGED <<serverVars, gainVars, cleanupVars, spatialVars, syncVars, pairVars>>
    \/ \E q \in Peers : AudioOffer(q) /\ UNCHANGED <<serverVars, gainVars, cleanupVars, spatialVars, syncVars, pairVars>>
    \/ \E q \in Peers : AudioAnswer(q) /\ UNCHANGED <<serverVars, gainVars, cleanupVars, spatialVars, syncVars, pairVars>>
    \/ \E pc \in 1..MaxChannels : ConnectionFailed(pc) /\ UNCHANGED <<serverVars, gainVars, cleanupVars, spatialVars, syncVars, pairVars>>
    \/ \E pc \in 1..MaxChannels : OnTrackStart(pc) /\ UNCHANGED <<serverVars, gainVars, cleanupVars, spatialVars, syncVars, pairVars>>
    \/ \E pc \in 1..MaxChannels, o \in Outcomes : OnTrackFinish(pc, o) /\ UNCHANGED <<serverVars, gainVars, cleanupVars, spatialVars, syncVars, pairVars>>
    \/ JoinRoom /\ UNCHANGED <<serverVars, gainVars, cleanupVars, spatialVars, syncVars, pairVars>>
    \/ ToggleAudio /\ UNCHANGED <<serverVars, gainVars, cleanupVars, spatialVars, syncVars, pairVars>>
    \/ \E q \in Peers : LoopStep(q) /\ UNCHANGED <<serverVars, gainVars, cleanupVars, spatialVars, syncVars, pairVars>>
    \/ LoopEnd /\ UNCHANGED <<serverVars, gainVars, cleanupVars, spatialVars, syncVars, pairVars>>
    \/ LoopReturn /\ UNCHANGED <<serverVars, gainVars, cleanupVars, spatialVars, syncVars, pairVars>>

SpecClient == Init /\ [][NextClient]_vars

(***************************************************************************)
(* The gain of a remote participant (calculateSpatialGain).                *)
(*                                                                         *)
(* Gains are exact fractions, written as multiples of 1 / GainScale: every *)
(* quotient of the code is exact at that scale when the distance is a      *)
(* whole number.  The positions the gain is computed for are the ones at a *)
(* whole distance from the listener, where Math.sqrt is exact.             *)
(***************************************************************************)
GainScale == 150

Coordinates == 0..MaxCoordinate

\* Math.sqrt(n) for a perfect square n
Sqrt(n) == CHOOSE r \in 0..(2 * MaxCoordinate) : r * r = n

IsSquare(n) == \E r \in 0..(2 * MaxCoordinate) : r * r = n

Distance(pos1, pos2) == Sqrt(SquaredDistance(pos1, pos2))

\* 0.8 + 0.2 * (1 - (distance - 15) / 15)
CloseBand(distance) ==
    (8 * GainScale) \div 10
    + (((2 * GainScale) \div 10) * (15 - (distance - 15))) \div 15

MediumBandFromHalf(distance) ==
    (5 * GainScale) \div 10
    + (((3 * GainScale) \div 10) * (20 - (distance - 30))) \div 20

\* 0.4 + 0.4 * (1 - (distance - 30) / 20)
MediumBand(distance) ==
    (4 * GainScale) \div 10
    + (((4 * GainScale) \div 10) * (20 - (distance - 30))) \div 20

\* 0.4 * (1 - (distance - 50) / 30)
FarBand(distance) ==
    (((4 * GainScale) \div 10) * (30 - (distance - 50))) \div 30

calculateSpatialGainNoCutOff(userPosition, otherPosition) ==
    LET distance == Distance(userPosition, otherPosition)
    IN IF distance <= 15 THEN GainScale
       ELSE IF distance <= 30 THEN CloseBand(distance)
       ELSE IF distance <= 50 THEN MediumBand(distance)
       ELSE FarBand(distance)

calculateSpatialGain(userPosition, otherPosition) ==
    LET distance == Distance(userPosition, otherPosition)
        maxDistance == 80
    IN IF distance >= maxDistance THEN 0
       ELSE IF distance <= 15 THEN GainScale
       ELSE IF distance <= 30 THEN CloseBand(distance)
       ELSE IF distance <= 50 THEN MediumBand(distance)
       ELSE FarBand(distance)

\* the listener is at the origin or at seat-0-0
Listeners == {[x |-> 0, y |-> 0], initializeSeats[0].position}

InitGain ==
    /\ InitServerVars
    /\ InitClientVars
    /\ InitCleanupVars
    /\ InitSpatialVars
    /\ InitSyncVars
    /\ InitPairVars
    /\ userPos \in Listeners
    /\ otherPos \in [x : Coordinates, y : Coordinates]
    /\ IsSquare(SquaredDistance(userPos, otherPos))
    /\ gain = <<>>

\* the gain that updateSpatialAudio computes for a connection
updateSpatialAudio ==
    /\ gain = <<>>
    /\ gain' = <<calculateSpatialGain(userPos, otherPos)>>
    /\ UNCHANGED <<userPos, otherPos>>

NextGain == updateSpatialAudio /\ UNCHANGED <<serverVars, clientVars, cleanupVars, spatialVars, syncVars, pairVars>>

SpecGain == InitGain /\ [][NextGain]_vars

\* ---------------------------------------------------------------------
\* cleanupAudioConnection statement by statement, with statements that throw
\* ---------------------------------------------------------------------

\* the statements of cleanupAudioConnection that stand in a try block
Throwable == {"pause", "srcObject", "source", "pannerNode", "gainNode", "close"}

\* the statements of a try block that run when those of throws throw: the
\* first that throws leaves the block for its catch
Attempted(block, throws) ==
    {block[i] : i \in {j \in 1..Len(block) : \A k \in 1..(j - 1) : block[k] \notin throws}}

\* the three try blocks for record c; a node is disconnected if the record
\* holds it
ElementBlock == <<"pause", "srcObject">>

NodeBlock(c) ==
    (IF c.source THEN <<"source">> ELSE <<>>)
        \o (IF c.pannerNode THEN <<"pannerNode">> ELSE <<>>)
        \o (IF c.gainNode THEN <<"gainNode">> ELSE <<>>)

ChannelBlock == <<"close">>

\* every statement of the teardown of record c
Steps(c) ==
    {ElementBlock[i] : i \in 1..Len(ElementBlock)}
        \cup {NodeBlock(c)[i] : i \in 1..Len(NodeBlock(c))}
        \cup {"close", "delete"}

\* a variant that leaves the record in the map
cleanupAudioConnectionKeepsRecord(st, userId, throws) ==
    IF userId \notin DOMAIN st.ac THEN [st |-> st, attempted |-> {}]
    ELSE LET c == st.ac[userId]
             attempted == Attempted(ElementBlock, throws)
                              \cup Attempted(NodeBlock(c), throws)
                              \cup Attempted(ChannelBlock, throws)
             done == attempted \ throws
             sk == IF c.el = 0 THEN st.sinks
                   ELSE [st.sinks EXCEPT
                           ![c.el].playing = IF "pause" \in done THEN FALSE ELSE @,
                           ![c.el].srcObject = IF "srcObject" \in done THEN FALSE ELSE @,
                           ![c.el].sourceConn = IF "source" \in done THEN FALSE ELSE @,
                           ![c.el].pannerConn = IF "pannerNode" \in done THEN FALSE ELSE @,
                           ![c.el].gainConn = IF "gainNode" \in done THEN FALSE ELSE @]
         IN [st |-> [ac |-> st.ac,
                     pcs |-> [st.pcs EXCEPT ![c.pc].open = IF "close" \in done THEN FALSE ELSE @],
                     sinks |-> sk],
             attempted |-> attempted]

\* cleanupAudioConnection(userId, reason) when the statements of throws
\* throw: the state it leaves and the statements it ran. A statement that
\* throws has no effect; the delete of the record stands after the last
\* try block and always runs.
cleanupAudioConnectionThrowing(st, userId, throws) ==
    IF userId \notin DOMAIN st.ac THEN [st |-> st, attempted |-> {}]
    ELSE LET c == st.ac[userId]
             attempted == Attempted(ElementBlock, throws)
                              \cup Attempted(NodeBlock(c), throws)
                              \cup Attempted(ChannelBlock, throws)
                              \cup {"delete"}
             done == attempted \ throws
             sk == IF c.el = 0 THEN st.sinks
                   ELSE [st.sinks EXCEPT
                           ![c.el].playing = IF "pause" \in done THEN FALSE ELSE @,
                           ![c.el].srcObject = IF "srcObject" \in done THEN FALSE ELSE @,
                           ![c.el].sourceConn = IF "source" \in done THEN FALSE ELSE @,
                           ![c.el].pannerConn = IF "pannerNode" \in done THEN FALSE ELSE @,
                           ![c.el].gainConn = IF "gainNode" \in done THEN FALSE ELSE @]
         IN [st |-> [ac |-> MapDelete(st.ac, userId),
                     pcs |-> [st.pcs EXCEPT ![c.pc].open = IF "close" \in done THEN FALSE ELSE @],
                     sinks |-> sk],
             attempted |-> attempted]

\* the sets of throwing statements that behave differently: at most one
\* statement of each try block
ThrowSets ==
    {T \in SUBSET Throwable :
        /\ Cardinality(T \cap {"pause", "srcObject"}) <= 1
        /\ Cardinality(T \cap {"source", "pannerNode", "gainNode"}) <= 1}

\* what a client can hold for a peer: nothing, the placeholder record of
\* createPeerConnection, or the record ontrack stored for a rendering mode
SessionKinds == {"none", "placeholder", "spatial", "basic", "direct"}

\* a joined client that holds, for every peer, a session of some kind on
\* the channel of that peer; the channel of a placeholder is open, that of
\* a stored record was closed when ontrack cleaned the placeholder up
InitCleanup ==
    /\ InitServerVars
    /\ InitGainVars
    /\ InitCleanupVars
    /\ InitSpatialVars
    /\ InitSyncVars
    /\ InitPairVars
    /\ roomUsers = [q \in Peers |-> "on"]
    /\ isJoined = TRUE
    /\ audioEnabled = TRUE
    /\ loop = NoLoop
    /\ \E kind \in [Peers -> SessionKinds] :
          /\ audioConnections =
                [q \in {p \in Peers : kind[p] # "none"} |->
                    IF kind[q] = "placeholder"
                    THEN [createPeerConnection([ac |-> << >>, pcs |-> <<>>, sinks |-> <<>>],
                                               q, "handleSignaling").ac[q]
                            EXCEPT !.pc = q]
                    ELSE Stored(q, kind[q])]
          /\ pcs = [q \in Peers |->
                      [userId |-> q, open |-> kind[q] = "placeholder", role |-> "answerer",
                       caller |-> "handleSignaling", offerSent |-> FALSE,
                       lost |-> kind[q] = "none", stage |-> "ready", remote |-> TRUE,
                       track |-> IF kind[q] \in {"none", "placeholder"}
                                 THEN "none" ELSE "attached"]]
          /\ sinks = [q \in Peers |->
                        IF kind[q] \in {"none", "placeholder"} THEN NoSink
                        ELSE Built(kind[q])]

\* one call of cleanupAudioConnection(q, reason) in which the statements of
\* throws throw
Cleanup(q, throws) ==
    /\ LET r == cleanupAudioConnectionThrowing(St, q, throws)
       IN /\ SetSt(r.st)
          /\ teardown' = [userId |-> q,
                          attempted |-> r.attempted,
                          steps |-> IF q \in DOMAIN audioConnections
                                    THEN Steps(audioConnections[q]) ELSE {},
                          again |-> teardown.userId = q]
    /\ UNCHANGED <<roomUsers, isJoined, audioEnabled, loop>>

NextCleanup ==
    \E q \in Peers, throws \in ThrowSets :
        Cleanup(q, throws) /\ UNCHANGED <<serverVars, gainVars, spatialVars, syncVars, pairVars>>

SpecCleanup == InitCleanup /\ [][NextCleanup]_vars


\* ---------------------------------------------------------------------
\* calculateSpatialGain between any two positions of the room
\* ---------------------------------------------------------------------

\* the largest r with r * r <= n, searched between lo and hi
\* (lo * lo <= n < hi * hi)
RECURSIVE IsqrtIn(_, _, _)
IsqrtIn(n, lo, hi) ==
    IF hi - lo <= 1 THEN lo
    ELSE LET mid == (lo + hi) \div 2
         IN IF mid * mid <= n THEN IsqrtIn(n, mid, hi) ELSE IsqrtIn(n, lo, mid)

\* Math.sqrt(dx^2 + dy^2) in hundredths, rounded down
DistanceCenti(pos1, pos2) ==
    IsqrtIn(SquaredDistance(pos1, pos2) * 10000, 0, 200 * MaxCoordinate)

\* gains in units of 1 / FineScale: every band formula is exact on a
\* distance given in hundredths
FineScale == 100 * GainScale

spatialGainCutAt70(userPosition, otherPosition) ==
    LET distance == DistanceCenti(userPosition, otherPosition)
    IN IF distance >= 7000 THEN 0
       ELSE IF distance <= 1500 THEN FineScale
       ELSE IF distance <= 3000
            THEN (8 * FineScale) \div 10 + (((2 * FineScale) \div 10) * (3000 - distance)) \div 1500
       ELSE IF distance <= 5000
            THEN (4 * FineScale) \div 10 + (((4 * FineScale) \div 10) * (5000 - distance)) \div 2000
       ELSE (((4 * FineScale) \div 10) * (8000 - distance)) \div 3000

\* calculateSpatialGain for any two positions: the distance is taken in
\* hundredths, the bands are those of CloseBand, MediumBand and FarBand
spatialGain(userPosition, otherPosition) ==
    LET distance == DistanceCenti(userPosition, otherPosition)
        maxDistance == 8000
    IN IF distance >= maxDistance THEN 0
       ELSE IF distance <= 1500 THEN FineScale
       ELSE IF distance <= 3000
            THEN (8 * FineScale) \div 10 + (((2 * FineScale) \div 10) * (3000 - distance)) \div 1500
       ELSE IF distance <= 5000
            THEN (4 * FineScale) \div 10 + (((4 * FineScale) \div 10) * (5000 - distance)) \div 2000
       ELSE (((4 * FineScale) \div 10) * (8000 - distance)) \div 3000

\* the positions of the seats of the grid
SeatPositions == {initializeSeats[s].position : s \in SeatIds}

\* a listener on one seat and a participant on another
InitSeats ==
    /\ InitServerVars
    /\ InitClientVars
    /\ InitCleanupVars
    /\ InitSpatialVars
    /\ InitSyncVars
    /\ InitPairVars
    /\ userPos \in SeatPositions
    /\ otherPos \in SeatPositions \ {userPos}
    /\ gain = <<>>

\* the gain that updateSpatialAudio computes between two seats
updateSpatialAudioSeats ==
    /\ gain = <<>>
    /\ gain' = <<spatialGain(userPos, otherPos)>>
    /\ UNCHANGED <<userPos, otherPos>>

NextSeats == updateSpatialAudioSeats /\ UNCHANGED <<serverVars, clientVars, cleanupVars, spatialVars, syncVars, pairVars>>

SpecSeats == InitSeats /\ [][NextSeats]_vars


\* ---------------------------------------------------------------------
\* updateSpatialAudio over the sessions of a joined client
\* ---------------------------------------------------------------------

\* the seats the participants of this part sit on: seat-0-0, seat-0-1,
\* seat-0-3 and seat-3-3
SpatialSeats == {0, 1, 3, 15}

\* the position a spatial session's panner is given: room coordinates to
\* metres, (p - 50) * 0.2, here in tenths of a metre
PannerPosition(p) == [x |-> (p.x - 50) * 2, y |-> 0, z |-> (p.y - 50) * 2]

\* the nodes of a record ontrack has just stored: gain 1.0 (line 663 or
\* line 681), the panner where a new PannerNode is
NewNodes == [gain |-> FineScale, panner |-> [x |-> 0, y |-> 0, z |-> 0]]

\* a variant that gives every session with a gain node the distance gain
updateNodesAllModes(ac, nodes, position, roster) ==
    [q \in DOMAIN nodes |->
        IF q \in DOMAIN roster /\ q \in DOMAIN ac /\ ac[q].gainNode
        THEN [gain |-> spatialGain(position, roster[q]),
              panner |-> IF ac[q].connectionType = "spatial"
                         THEN PannerPosition(roster[q]) ELSE nodes[q].panner]
        ELSE nodes[q]]

\* the forEach of updateSpatialAudio, for the current user at position and
\* the roomState.users users: a record whose user is in users and that has a
\* gain node gets, in spatial mode, the panner position and the gain, in
\* basic mode the gain; a direct record is only logged
updateNodes(ac, nodes, position, roster) ==
    [q \in DOMAIN nodes |->
        IF q \in DOMAIN roster /\ q \in DOMAIN ac /\ ac[q].gainNode
        THEN IF ac[q].connectionType = "spatial" /\ ac[q].pannerNode
             THEN [gain |-> spatialGain(position, roster[q]),
                   panner |-> PannerPosition(roster[q])]
             ELSE IF ac[q].connectionType = "basic" /\ ac[q].usingWebAudio
                  THEN [nodes[q] EXCEPT !.gain = spatialGain(position, roster[q])]
                  ELSE nodes[q]
        ELSE nodes[q]]

\* a joined client on seat-0-0; every peer is seated and has sent
\* its track (ontrack is at its await of play()). The createPeerConnection
\* in use was made when localStream was set, in joinRoom: the
\* roomState.users of its closure is the roster of that render, which is
\* empty or holds the peers that were seated before
InitSpatial ==
    /\ InitServerVars
    /\ InitGainVars
    /\ InitCleanupVars
    /\ InitSyncVars
    /\ InitPairVars
    /\ roomUsers = [q \in Peers |-> "on"]
    /\ isJoined = TRUE
    /\ audioEnabled = TRUE
    /\ loop = NoLoop
    /\ audioConnections = << >>
    /\ pcs = [q \in Peers |->
                [userId |-> q, open |-> FALSE, role |-> "answerer",
                 caller |-> "handleSignaling", offerSent |-> FALSE, lost |-> FALSE,
                 stage |-> "ready", remote |-> TRUE, track |-> "playing"]]
    /\ sinks = [q \in Peers |-> [NoSink EXCEPT !.created = TRUE, !.srcObject = TRUE]]
    /\ \E mine \in SpatialSeats, theirs \in [Peers -> SpatialSeats], before \in BOOLEAN :
          /\ mine = 0
          /\ \A p, q \in Peers : p < q => theirs[p] < theirs[q]
          /\ \A q \in Peers : theirs[q] # mine
          /\ LET roster == [q \in Peers |-> initializeSeats[theirs[q]].position]
             IN spatial = [position |-> initializeSeats[mine].position,
                           users |-> roster,
                           closure |-> IF before THEN roster ELSE << >>,
                           nodes |-> << >>,
                           last |-> "none"]

\* pc.ontrack from the await of play() to its end, for a rendering mode: the
\* record is stored with fresh nodes, and the updateSpatialAudio of line 698
\* is the one of the closure of createPeerConnection
OnTrackSpatial(q, mode) ==
    /\ mode \in {"spatial", "basic", "direct"}
    /\ OnTrackFinish(q, mode)
    /\ spatial' = [spatial EXCEPT
                     !.nodes = updateNodes(audioConnections', MapSet(spatial.nodes, q, NewNodes),
                                           spatial.position, spatial.closure),
                     !.last = "ontrack"]

\* handleMessage, case "room_state", and the render it causes: one
\* participant has changed in the snapshot. Either the client itself sits
\* on a new seat (q is as before), or q has joined, left, toggled its
\* audio or sits on a new seat. roomState and currentUser are set, and the
\* effect of line 739 runs the new updateSpatialAudio.
RoomStateSpatial(q, v, own, seat) ==
    /\ RoomState(q, v)
    /\ LET position == initializeSeats[own].position
           snapshot == IF v = "absent" THEN MapDelete(spatial.users, q)
                    ELSE MapSet(spatial.users, q, initializeSeats[seat].position)
       IN /\ \A p \in DOMAIN snapshot : snapshot[p] # position
          /\ \A p, r \in DOMAIN snapshot : p # r => snapshot[p] # snapshot[r]
          \* one change for each snapshot
          /\ \/ position = spatial.position
             \/ /\ v = roomUsers[q]
                /\ snapshot = spatial.users
          /\ spatial' = [spatial EXCEPT
                           !.position = position,
                           !.users = snapshot,
                           !.nodes = updateNodes(audioConnections', spatial.nodes, position, snapshot),
                           !.last = "room_state"]

NextSpatial ==
    \/ \E q \in Peers, mode \in {"spatial", "basic", "direct"} :
          OnTrackSpatial(q, mode) /\ UNCHANGED <<serverVars, gainVars, cleanupVars, syncVars, pairVars>>
    \/ \E q \in Peers, v \in {"absent", "on"}, own \in SpatialSeats, seat \in SpatialSeats :
          RoomStateSpatial(q, v, own, seat) /\ UNCHANGED <<serverVars, gainVars, cleanupVars, syncVars, pairVars>>

SpecSpatial == InitSpatial /\ [][NextSpatial]_vars


(***************************************************************************)
(* The server and the clients behind its connections: every message that   *)
(* conn.send and room.broadcast put on a connection reaches the client's   *)
(* onmessage in the order it was sent (a WebSocket), one message at a      *)
(* time.                                                                   *)
(***************************************************************************)
\* the seats that the clients of this specification name
SyncSeatInputs == {SeatPick[1], SeatPick[2], UnknownSeat}

\* the messages among msgs that are addressed to connection c
Addressed(msgs, c) == SelectSeq(msgs, LAMBDA m : m.to = c)

\* the messages of the handler go on the wire newest first
SentNewestFirst ==
    inbox' = [c \in Conns |->
                 IF c \in conns' THEN Addressed(out', c) \o inbox[c] ELSE <<>>]

\* the messages of the handler that has run go on the wire of their
\* connection, behind those already there; what a closed connection has not
\* delivered is lost
Sent ==
    inbox' = [c \in Conns |->
                 IF c \in conns' THEN inbox[c] \o Addressed(out', c) ELSE <<>>]

\* there is room on every connection for the messages of one handler
InboxRoom == \A c \in Conns : Len(inbox[c]) < MaxInbox

\* ws.onmessage = handleMessage with the oldest message of the connection:
\* a room_state replaces roomState by a clone of its payload
Receive(c) ==
    /\ c \in conns
    /\ inbox[c] # <<>>
    /\ LET m == Head(inbox[c])
       IN view' = IF m.type = "room_state"
                  THEN [view EXCEPT ![c] = [seats |-> m.seats, users |-> m.users]]
                  ELSE view
    /\ inbox' = [inbox EXCEPT ![c] = Tail(@)]

NextSync ==
    \/ \E c \in Conns :
          Idle /\ InboxRoom /\ onConnect(c) /\ Sent
          /\ UNCHANGED <<view, clientVars, gainVars, cleanupVars, spatialVars, pairVars>>
    \/ \E c \in Conns, s \in SyncSeatInputs :
          Idle /\ InboxRoom /\ handleUserJoin(c, s) /\ Sent
          /\ UNCHANGED <<view, clientVars, gainVars, cleanupVars, spatialVars, pairVars>>
    \/ \E c \in Conns, s \in SyncSeatInputs :
          Idle /\ InboxRoom /\ handleUserMove(c, s) /\ Sent
          /\ UNCHANGED <<view, clientVars, gainVars, cleanupVars, spatialVars, pairVars>>
    \/ \E c \in Conns :
          Idle /\ InboxRoom /\ handleToggleAudio(c) /\ Sent
          /\ UNCHANGED <<view, clientVars, gainVars, cleanupVars, spatialVars, pairVars>>
    \/ \E c \in Conns :
          Idle /\ InboxRoom /\ handleChatMessage(c) /\ Sent
          /\ UNCHANGED <<view, clientVars, gainVars, cleanupVars, spatialVars, pairVars>>
    \/ \E c \in Conns :
          Idle /\ onClose(c) /\ Sent
          /\ UNCHANGED <<view, clientVars, gainVars, cleanupVars, spatialVars, pairVars>>
    \/ Return /\ UNCHANGED <<clientVars, gainVars, cleanupVars, spatialVars, syncVars, pairVars>>
    \/ \E c \in Conns :
          Receive(c) /\ UNCHANGED <<serverVars, clientVars, gainVars, cleanupVars, spatialVars, pairVars>>

SpecSync == Init /\ [][NextSync]_vars

(***************************************************************************)
(* Two clients and the server between them: joinRoom, the room_state       *)
(* handler of handleMessage and handleSignaling on both sides, the         *)
(* messages of each client reaching the server in the order they were      *)
(* sent, and the server's messages reaching each client in order.  Nobody  *)
(* mutes and nobody leaves.  The negotiation steps of one handler run      *)
(* together; SpecClient interleaves them.                                  *)
(***************************************************************************)
Other(i) == 3 - i

\* the seat that client i clicks
PairSeat(i) == SeatPick[i]

\* session descriptions: the offer of channel k, and the answer of channel
\* k to the offer of channel j of the other side
NoDesc == [chan |-> 0, re |-> 0]
OfferOf(k) == [chan |-> k, re |-> 0]
AnswerOf(k, j) == [chan |-> k, re |-> j]

\* createPeerConnection, createOffer, setLocalDescription: a new channel
\* with a local offer replaces the record; sent tells whether the caller's
\* socket was there to send the audio_offer
makeOffer(c, sent) ==
    LET k == Len(c.chans) + 1
    IN [c EXCEPT !.chans = Append(@, [role |-> "offerer", local |-> OfferOf(k),
                                      remote |-> NoDesc, sent |-> sent]),
                 !.record = k,
                 !.up = IF sent
                        THEN Append(@, [type |-> "audio_offer", payload |-> OfferOf(k)])
                        ELSE @]

\* createPeerConnection, setRemoteDescription(offer), createAnswer,
\* setLocalDescription, socket.send: a new channel replaces the record
makeAnswer(c, offer) ==
    LET k == Len(c.chans) + 1
    IN [c EXCEPT !.chans = Append(@, [role |-> "answerer", local |-> AnswerOf(k, offer.chan),
                                      remote |-> offer, sent |-> TRUE]),
                 !.record = k,
                 !.up = Append(@, [type |-> "audio_answer",
                                   payload |-> AnswerOf(k, offer.chan)])]

\* setRemoteDescription(answer) on the channel of the record: it rejects
\* unless that channel has a local offer and no remote description
applyAnswer(c, answer) ==
    IF c.record = 0 THEN c
    ELSE LET ch == c.chans[c.record]
         IN IF ch.role = "offerer" /\ ch.remote = NoDesc
            THEN [c EXCEPT !.chans[c.record].remote = answer]
            ELSE c

\* the relayed messages carry the payload the sender put in
Carrying(msgs, payload) ==
    [k \in 1..Len(msgs) |->
        IF msgs[k].type \in SigTypes
        THEN [type |-> msgs[k].type, to |-> msgs[k].to,
              fromUserId |-> msgs[k].fromUserId, payload |-> payload]
        ELSE msgs[k]]

SentCarrying(payload) ==
    inbox' = [c \in Conns |-> inbox[c] \o Addressed(Carrying(out', payload), c)]

\* the socket of client i opens
PairConnect(i) ==
    /\ Idle
    /\ onConnect(i)
    /\ Sent
    /\ UNCHANGED <<view, pair>>

\* joinRoom up to await getUserMedia: the closure holds the roomState of
\* the render that made it
PairJoinRoomClick(i) ==
    /\ i \in conns
    /\ pair[i].stage = "idle"
    /\ pair' = [pair EXCEPT
                  ![i].stage = "media",
                  ![i].closure = {u \in DOMAIN view[i].users : view[i].users[u].audioEnabled}]
    /\ UNCHANGED <<serverVars, inbox, view>>

\* joinRoom from socket.send(join) on: isJoined is set at once, an offer
\* goes to every audio enabled user of the closure's roomState.users
joinRoomOffers(c) == IF c.closure = {} THEN c ELSE makeOffer(c, TRUE)

PairJoinRoom(i) ==
    /\ pair[i].stage = "media"
    /\ pair' = [pair EXCEPT
                  ![i] = joinRoomOffers(
                            [pair[i] EXCEPT
                                !.stage = "joined",
                                !.isJoined = TRUE,
                                !.up = Append(@, [type |-> "join", payload |-> PairSeat(i)])])]
    /\ UNCHANGED <<serverVars, inbox, view>>

\* onMessage of the server with the oldest message of client i
PairServeJoin(i) ==
    /\ Idle
    /\ pair[i].up # <<>>
    /\ Head(pair[i].up).type = "join"
    /\ handleUserJoin(i, Head(pair[i].up).payload)
    /\ Sent
    /\ pair' = [pair EXCEPT ![i].up = Tail(@)]
    /\ UNCHANGED view

PairServeSignal(i) ==
    /\ Idle
    /\ pair[i].up # <<>>
    /\ Head(pair[i].up).type \in SigTypes
    /\ handleWebRTCSignaling(i, Head(pair[i].up).type, Other(i), None)
    /\ SentCarrying(Head(pair[i].up).payload)
    /\ pair' = [pair EXCEPT ![i].up = Tail(@)]
    /\ UNCHANGED view

PairReturn ==
    /\ Return
    /\ UNCHANGED <<inbox, view, pair>>

\* handleMessage, case "room_state": roomState is replaced; joined, the
\* client prepares an offer for every audio enabled participant without a
\* record, and its socket, the state of the first render, is null
PairRoomState(i) ==
    /\ i \in conns
    /\ inbox[i] # <<>>
    /\ Head(inbox[i]).type = "room_state"
    /\ Receive(i)
    /\ LET us == Head(inbox[i]).users
           newUsers == {u \in DOMAIN us : u # i /\ us[u].audioEnabled /\ pair[i].record = 0}
       IN pair' = IF pair[i].isJoined /\ newUsers # {}
                  THEN [pair EXCEPT ![i] = makeOffer(@, SocketOf("handleMessage"))]
                  ELSE pair
    /\ UNCHANGED serverVars

\* handleSignaling, case "audio_offer"
PairAudioOffer(i) ==
    /\ i \in conns
    /\ inbox[i] # <<>>
    /\ Head(inbox[i]).type = "audio_offer"
    /\ Receive(i)
    /\ pair' = [pair EXCEPT ![i] = makeAnswer(@, Head(inbox[i]).payload)]
    /\ UNCHANGED serverVars

\* handleSignaling, case "audio_answer"
PairAudioAnswer(i) ==
    /\ i \in conns
    /\ inbox[i] # <<>>
    /\ Head(inbox[i]).type = "audio_answer"
    /\ Receive(i)
    /\ pair' = [pair EXCEPT ![i] = applyAnswer(@, Head(inbox[i]).payload)]
    /\ UNCHANGED serverVars

NextPair ==
    \/ \E i \in Pair : PairConnect(i) /\ UNCHANGED <<clientVars, gainVars, cleanupVars, spatialVars>>
    \/ \E i \in Pair : PairJoinRoomClick(i) /\ UNCHANGED <<clientVars, gainVars, cleanupVars, spatialVars>>
    \/ \E i \in Pair : PairJoinRoom(i) /\ UNCHANGED <<clientVars, gainVars, cleanupVars, spatialVars>>
    \/ \E i \in Pair : PairServeJoin(i) /\ UNCHANGED <<clientVars, gainVars, cleanupVars, spatialVars>>
    \/ \E i \in Pair : PairServeSignal(i) /\ UNCHANGED <<clientVars, gainVars, cleanupVars, spatialVars>>
    \/ PairReturn /\ UNCHANGED <<clientVars, gainVars, cleanupVars, spatialVars>>
    \/ \E i \in Pair : PairRoomState(i) /\ UNCHANGED <<clientVars, gainVars, cleanupVars, spatialVars>>
    \/ \E i \in Pair : PairAudioOffer(i) /\ UNCHANGED <<clientVars, gainVars, cleanupVars, spatialVars>>
    \/ \E i \in Pair : PairAudioAnswer(i) /\ UNCHANGED <<clientVars, gainVars, cleanupVars, spatialVars>>

\* the server handles every message it has got and the clients handle
\* every message they have got; when a user clicks is up to the user
PairFairness ==
    /\ \A i \in Pair : WF_vars(PairServeJoin(i) /\ UNCHANGED <<clientVars, gainVars, cleanupVars, spatialVars>>)
    /\ \A i \in Pair : WF_vars(PairServeSignal(i) /\ UNCHANGED <<clientVars, gainVars, cleanupVars, spatialVars>>)
    /\ WF_vars(PairReturn /\ UNCHANGED <<clientVars, gainVars, cleanupVars, spatialVars>>)
    /\ \A i \in Pair : WF_vars(PairJoinRoom(i) /\ UNCHANGED <<clientVars, gainVars, cleanupVars, spatialVars>>)
    /\ \A i \in Pair : WF_vars(PairRoomState(i) /\ UNCHANGED <<clientVars, gainVars, cleanupVars, spatialVars>>)
    /\ \A i \in Pair : WF_vars(PairAudioOffer(i) /\ UNCHANGED <<clientVars, gainVars, cleanupVars, spatialVars>>)
    /\ \A i \in Pair : WF_vars(PairAudioAnswer(i) /\ UNCHANGED <<clientVars, gainVars, cleanupVars, spatialVars>>)

SpecPair == Init /\ [][NextPair]_vars

SpecPairFair == SpecPair /\ PairFairness

(***************************************************************************)
(* Helpers of the properties.                                              *)
(***************************************************************************)
IsUser(c) == c \in DOMAIN users
Referencing(s) == {u \in DOMAIN users : users[u].seatId = s}
OutOfType(T) == {i \in 1..Len(out) : out[i].type \in T}
OutTo(c, T) == {i \in 1..Len(out) : out[i].type \in T /\ out[i].to = c}
SeatCmd == lastCmd.kind \in {"join", "move"} /\ lastCmd.hasPayload

(***************************************************************************)
(* The room: seats and participants.                                       *)
(***************************************************************************)
\* C1: in every reachable state a seat is marked occupied if and only if
\* exactly one participant's seat reference equals it, and the seat's
\* occupant id is that participant's id.
C1_SeatPairing ==
    \A s \in SeatIds :
        seats[s].occupied <=>
            /\ Cardinality(Referencing(s)) = 1
            /\ seats[s].userId \in Referencing(s)

\* C2: no two participants reference the same seat, and the seat a
\* participant references is occupied with that participant as its occupant.
C2_NoDoubleOccupancy ==
    /\ \A u, v \in DOMAIN users : u # v => users[u].seatId # users[v].seatId
    /\ \A u \in DOMAIN users :
          /\ seats[users[u].seatId].occupied
          /\ seats[users[u].seatId].userId = u

\* a join or move for a seat another participant holds has just been refused
C2_Witness ==
    /\ SeatCmd
    /\ Cardinality(DOMAIN users) >= 2
    /\ lastCmd.seatId \in SeatIds
    /\ Referencing(lastCmd.seatId) # {}
    /\ lastCmd.sender \notin Referencing(lastCmd.seatId)

\* in the step that handles the command lastCmd', the target seat is unknown
\* or occupied when the handler starts
RejectedStep ==
    /\ lastCmd'.kind \in {"join", "move"}
    /\ lastCmd'.hasPayload
    /\ lastCmd'.seatId \notin SeatIds \/ seats[lastCmd'.seatId].occupied

\* C3: a join or move whose target seat is unknown or occupied leaves the
\* seats and the participant map as they were and broadcasts no room_state.
C3_RejectedLeavesState ==
    [][RejectedStep =>
          /\ seats' = seats
          /\ users' = users
          /\ \A i \in 1..Len(out') : out'[i].type # "room_state"]_vars

\* a participant has just been refused a move to a seat another one holds
C3_Witness ==
    /\ lastCmd.kind = "move"
    /\ lastCmd.hasPayload
    /\ IsUser(lastCmd.sender)
    /\ lastCmd.seatId \in SeatIds
    /\ seats[lastCmd.seatId].occupied
    /\ seats[lastCmd.seatId].userId # lastCmd.sender
    /\ OutOfType({"error"}) # {}

\* C4 as claimed: every join or move whose target seat is unknown or occupied
\* sends one error to the requester and nothing else, participant or not.
C4_ErrorToEveryRequester ==
    [][RejectedStep => out' = <<ErrorMsg(lastCmd'.sender)>>]_vars

\* C4 as amended: a join from any connection, or a move from a participant,
\* whose target seat is unknown or occupied sends exactly one error, to the
\* requester alone; a move from a connection that is no participant sends
\* nothing at all.
C4_ErrorToRequester ==
    [][RejectedStep =>
          IF lastCmd'.kind = "join" \/ lastCmd'.sender \in DOMAIN users
          THEN out' = <<ErrorMsg(lastCmd'.sender)>>
          ELSE out' = <<>>]_vars

\* a connection that is no participant has just been refused a seat that a
\* participant holds (the spec's scenario 3)
C4_Witness ==
    /\ lastCmd.kind = "join"
    /\ lastCmd.hasPayload
    /\ ~IsUser(lastCmd.sender)
    /\ lastCmd.seatId \in SeatIds
    /\ Referencing(lastCmd.seatId) # {}
    /\ out = <<ErrorMsg(lastCmd.sender)>>

(***************************************************************************)
(* The proximity gate of the chat.                                         *)
(***************************************************************************)
\* C5: a chat message of participant P reaches another participant C if and
\* only if C's audio flag is set and C is at most 80 away from P, whatever
\* P's own audio flag is; and it reaches no connection that is no participant.
C5_ChatGate ==
    (lastCmd.kind = "chat" /\ lastCmd.hasPayload /\ IsUser(lastCmd.sender)) =>
        LET P == users[lastCmd.sender]
        IN /\ \A c \in DOMAIN users \ {lastCmd.sender} :
                 (OutTo(c, {"chat_message"}) # {}) <=>
                     /\ users[c].audioEnabled
                     /\ (users[c].position.x - P.position.x) * (users[c].position.x - P.position.x)
                        + (users[c].position.y - P.position.y) * (users[c].position.y - P.position.y)
                        <= 6400
           /\ \A i \in OutOfType({"chat_message"}) : IsUser(out[i].to)

\* a muted participant has just chatted and an audio enabled participant in
\* range received it
C5_Witness ==
    /\ lastCmd.kind = "chat"
    /\ IsUser(lastCmd.sender)
    /\ ~users[lastCmd.sender].audioEnabled
    /\ \E c \in DOMAIN users \ {lastCmd.sender} : OutTo(c, {"chat_message"}) # {}

\* a participant has just chatted and the other one, audio enabled, is in
\* the opposite corner and received nothing
C5_WitnessOutOfRange ==
    /\ lastCmd.kind = "chat"
    /\ IsUser(lastCmd.sender)
    /\ \E c \in DOMAIN users \ {lastCmd.sender} :
          /\ users[c].audioEnabled
          /\ OutTo(c, {"chat_message"}) = {}

(***************************************************************************)
(* The signaling relay.                                                    *)
(***************************************************************************)
\* C6: every relayed negotiation message goes to the connection its
\* targetUserId names and carries the id of the connection that sent it as
\* fromUserId, whatever fromUserId the sender's payload held.
C6_RelayStampsSender ==
    \A i \in OutOfType(SigTypes) :
        /\ lastCmd.kind = "signal"
        /\ out[i].type = lastCmd.sigType
        /\ out[i].to = lastCmd.targetUserId
        /\ out[i].fromUserId = lastCmd.sender

\* a message whose payload named another sender has just been relayed
C6_Witness ==
    /\ lastCmd.kind = "signal"
    /\ lastCmd.fromUserId # None
    /\ lastCmd.fromUserId # lastCmd.sender
    /\ OutOfType(SigTypes) # {}

\* C7 as claimed: a negotiation message from any connection is forwarded if
\* its target has a live connection and dropped only if it has none.
C7_ForwardedIffTargetLive ==
    (lastCmd.kind = "signal" /\ lastCmd.hasPayload) =>
        ((lastCmd.targetUserId \in conns) <=> (OutTo(lastCmd.targetUserId, SigTypes) # {}))

\* C7 as amended: a negotiation message from a participant is forwarded if
\* its target has a live connection and dropped only if it has none; one from
\* a connection that is no participant is dropped whatever its target.
C7_ParticipantForwardedIffTargetLive ==
    (lastCmd.kind = "signal" /\ lastCmd.hasPayload) =>
        IF IsUser(lastCmd.sender)
        THEN (lastCmd.targetUserId \in conns) <=> (OutTo(lastCmd.targetUserId, SigTypes) # {})
        ELSE out = <<>>

\* a participant's candidate has just been forwarded to a live connection
\* that is no participant
C7_Witness ==
    /\ lastCmd.kind = "signal"
    /\ lastCmd.sigType = "ice_candidate"
    /\ IsUser(lastCmd.sender)
    /\ ~IsUser(lastCmd.targetUserId)
    /\ OutTo(lastCmd.targetUserId, SigTypes) # {}

\* C8: the relay delivers a negotiation message at most once and keeps none:
\* only the handler of that very message sends it, once, and a message whose
\* target has no live connection is not sent by any later handler, the
\* target's own connect included.
C8_AtMostOnceNoQueue ==
    /\ Cardinality(OutOfType(SigTypes)) <= 1
    /\ lastCmd.kind # "signal" => OutOfType(SigTypes) = {}
    /\ (lastCmd.kind = "signal" /\ lastCmd.targetUserId \notin conns) => out = <<>>

\* the connection a message was last dropped for has just connected and got
\* its snapshot only
C8_Witness ==
    /\ lastCmd.kind = "connect"
    /\ missed = lastCmd.sender
    /\ Len(out) = 1
    /\ out[1].type = "room_state"

(***************************************************************************)
(* The client's sessions.                                                  *)
(***************************************************************************)
\* the channels and sinks that the records of the session map hold
HeldChannels == {audioConnections[q].pc : q \in DOMAIN audioConnections}
HeldSinks == {audioConnections[q].el : q \in DOMAIN audioConnections}

\* C9: when the loop of an unmute is over, the client holds a session for
\* exactly the remote participants that are audio enabled in its snapshot,
\* and no channel or sink outside these sessions is still open or playing.
C9_MuteUnmuteSessions ==
    loop.kind = "unmuted" =>
        /\ \A q \in Peers : (q \in DOMAIN audioConnections) <=> (roomUsers[q] = "on")
        /\ \A pc \in 1..Len(pcs) : pcs[pc].open => pc \in HeldChannels
        /\ \A pc \in 1..Len(sinks) : sinks[pc].playing => pc \in HeldSinks

\* C10: once the setup of a session has failed and its teardown has run, the
\* sink of that session is neither attached nor playing, none of its graph
\* nodes is connected, its channel is closed and no record holds it.
C10_FailedSetupReleasesAll ==
    \A pc \in 1..Len(pcs) :
        pcs[pc].track = "failed" =>
            /\ ~sinks[pc].srcObject
            /\ ~sinks[pc].playing
            /\ ~sinks[pc].sourceConn /\ ~sinks[pc].pannerConn /\ ~sinks[pc].gainConn
            /\ ~pcs[pc].open
            /\ pc \notin HeldChannels
            /\ pc \notin HeldSinks

(***************************************************************************)
(* The room: what each command does.                                       *)
(***************************************************************************)
\* the room_state that carries the seats ss and the participants us to c
Snapshot(c, ss, us) == [type |-> "room_state", to |-> c, seats |-> ss, users |-> us]

\* the messages ms are one snapshot of (ss, us) for each connection of cs
OneSnapshotEach(ms, cs, ss, us) ==
    /\ Len(ms) = Cardinality(cs)
    /\ \A c \in cs : \E i \in 1..Len(ms) : ms[i] = Snapshot(c, ss, us)

\* in the step that handles the command lastCmd', a join names an existing
\* seat that is unoccupied when the handler starts
AcceptedJoinStep ==
    /\ lastCmd'.kind = "join"
    /\ lastCmd'.hasPayload
    /\ lastCmd'.seatId \in SeatIds
    /\ ~seats[lastCmd'.seatId].occupied

\* C11: a join by connection P naming an existing unoccupied seat S marks S
\* occupied by P, makes P a participant with seat reference S, the position
\* of S and audio enabled, changes no other seat and no other participant,
\* and sends the resulting snapshot, whole, to every connection.
C11_JoinEffect ==
    [][AcceptedJoinStep =>
          LET P == lastCmd'.sender
              S == lastCmd'.seatId
          IN /\ seats'[S] = [seats[S] EXCEPT !.occupied = TRUE, !.userId = P]
             /\ \A s \in SeatIds \ {S} : seats'[s] = seats[s]
             /\ DOMAIN users' = DOMAIN users \cup {P}
             /\ users'[P] = [id |-> P, position |-> seats[S].position,
                             seatId |-> S, audioEnabled |-> TRUE]
             /\ \A u \in DOMAIN users \ {P} : users'[u] = users[u]
             /\ OneSnapshotEach(out', conns, seats', users')]_vars

\* a second connection has just joined a free seat next to a participant
\* and both connections were sent the snapshot
C11_Witness ==
    /\ lastCmd.kind = "join"
    /\ IsUser(lastCmd.sender)
    /\ users[lastCmd.sender].seatId = lastCmd.seatId
    /\ Cardinality(DOMAIN users) = 2
    /\ Len(out) = 2
    /\ \A i \in 1..Len(out) : out[i].type = "room_state"

\* in the step that handles the command lastCmd', a participant's move names
\* an existing seat that is unoccupied when the handler starts
AcceptedMoveStep ==
    /\ lastCmd'.kind = "move"
    /\ lastCmd'.hasPayload
    /\ lastCmd'.sender \in DOMAIN users
    /\ lastCmd'.seatId \in SeatIds
    /\ ~seats[lastCmd'.seatId].occupied

\* in the seats ss, S and T are both unoccupied, or both occupied by P
BothOrNeither(ss, S, T, P) ==
    \/ ~ss[S].occupied /\ ~ss[T].occupied
    \/ /\ ss[S].occupied /\ ss[S].userId = P
       /\ ss[T].occupied /\ ss[T].userId = P

\* the states of the seats that the step shows: the one the command found,
\* the one it left, and the ones in the snapshots it sent
NeverBothOrNeither(S, T, P) ==
    /\ ~BothOrNeither(seats, S, T, P)
    /\ ~BothOrNeither(seats', S, T, P)
    /\ \A i \in 1..Len(out') :
          out'[i].type = "room_state" => ~BothOrNeither(out'[i].seats, S, T, P)

\* after the step S is free, T is occupied by P and P stands at T
MovedTo(S, T, P) ==
    /\ ~seats'[S].occupied
    /\ seats'[T].occupied /\ seats'[T].userId = P
    /\ users'[P].seatId = T
    /\ users'[P].position = seats'[T].position

\* C12 as claimed: on a successful move of P from S to T the handler frees S
\* only after it has claimed T; no state that a command, a snapshot or a
\* broadcast observes has S and T both unoccupied or both occupied by P;
\* afterwards S is free, T is occupied by P and P's position is T's.
C12_FreedAfterClaimed ==
    [][AcceptedMoveStep =>
          LET P == lastCmd'.sender
              S == users[P].seatId
              T == lastCmd'.seatId
          IN /\ \E i, j \in 1..Len(writes') :
                   /\ i < j
                   /\ writes'[i] = SeatWrite(T, TRUE, P)
                   /\ writes'[j] = SeatWrite(S, FALSE, None)
             /\ NeverBothOrNeither(S, T, P)
             /\ MovedTo(S, T, P)]_vars

\* C12 as amended: on a successful move of P from S to T the handler, having
\* found T unoccupied, frees S first and claims T second, both within the one
\* run of the handler; no state that a command, a snapshot or a broadcast
\* observes has S and T both unoccupied or both occupied by P; afterwards S
\* is free, T is occupied by P and P's position is T's.
C12_FreedThenClaimedInOneRun ==
    [][AcceptedMoveStep =>
          LET P == lastCmd'.sender
              S == users[P].seatId
              T == lastCmd'.seatId
          IN /\ writes' = <<SeatWrite(S, FALSE, None), SeatWrite(T, TRUE, P)>>
             /\ NeverBothOrNeither(S, T, P)
             /\ MovedTo(S, T, P)]_vars

\* a participant has just moved to a free seat while another participant
\* sits in the room, and both connections were sent the snapshot
C12_Witness ==
    /\ lastCmd.kind = "move"
    /\ Len(writes) = 2
    /\ Cardinality(DOMAIN users) = 2
    /\ users[lastCmd.sender].seatId = lastCmd.seatId
    /\ Len(out) = 2

\* C13: after the connection of participant P has closed, P is not in the
\* participant map, no seat is marked occupied with P as its occupant, and
\* the snapshot without P has been sent to each remaining connection.
C13_CloseFreesEverySeat ==
    [][(lastCmd'.kind = "close" /\ lastCmd'.sender \in DOMAIN users) =>
          LET P == lastCmd'.sender
          IN /\ P \notin DOMAIN users'
             /\ \A s \in SeatIds : ~(seats'[s].occupied /\ seats'[s].userId = P)
             /\ OneSnapshotEach(out', conns', seats', users')]_vars

\* C14: in every reachable state each participant's seat reference names an
\* existing seat and the participant's position is that seat's position.
C14_PositionIsSeatPosition ==
    \A u \in DOMAIN users :
        /\ users[u].seatId \in SeatIds
        /\ users[u].position = seats[users[u].seatId].position

\* a participant has just moved from one corner of the grid to the other
C14_Witness ==
    /\ lastCmd.kind = "move"
    /\ Len(writes) = 2
    /\ {writes[1].seat, writes[2].seat} = {0, rows * cols - 1}
    /\ users[lastCmd.sender].position = seats[writes[2].seat].position

(***************************************************************************)
(* The room: snapshots.                                                    *)
(***************************************************************************)
\* C15: a command that changes the seats or the participants is a join, a
\* move, a toggle_audio or a close, and before it returns it sends exactly
\* one room_state to every connection, whose payload is all the seats and
\* all the participants as they are after the change.
C15_FullSnapshotAfterChange ==
    [][(seats' # seats \/ users' # users) =>
          /\ lastCmd'.kind \in {"join", "move", "toggle_audio", "close"}
          /\ OneSnapshotEach(out', conns', seats', users')
          /\ \A i \in 1..Len(out') : DOMAIN out'[i].seats = SeatIds]_vars

\* a participant has just switched its audio off while a second participant
\* is seated, and both connections were sent the snapshot
C15_Witness ==
    /\ lastCmd.kind = "toggle_audio"
    /\ IsUser(lastCmd.sender)
    /\ ~users[lastCmd.sender].audioEnabled
    /\ Cardinality(DOMAIN users) = 2
    /\ \E s \in SeatIds : seats[s].occupied
    /\ Len(out) = 2

\* C16: the step in which a connection connects sends one message only, the
\* room_state of the room as it is at that moment, addressed to that
\* connection; and no step sends anything to a connection that is not live,
\* so nothing reaches a connection before its own snapshot.
C16_SnapshotFirst ==
    [][/\ \A c \in conns' \ conns :
             /\ out' = <<Snapshot(c, seats, users)>>
             /\ seats' = seats
             /\ users' = users
       /\ \A i \in 1..Len(out') : out'[i].to \in conns']_vars

\* a connection has just connected to a room in which another connection
\* is a participant, and was sent the snapshot alone
C16_Witness ==
    /\ lastCmd.kind = "connect"
    /\ DOMAIN users # {}
    /\ lastCmd.sender \notin DOMAIN users
    /\ out = <<Snapshot(lastCmd.sender, seats, users)>>

\* C17: toggle_audio from participant P inverts P's audio flag and changes
\* no seat, no other field of P and no other participant; toggle_audio from
\* a connection that is no participant changes nothing and sends nothing.
C17_ToggleInvertsOnlyFlag ==
    [][lastCmd'.kind = "toggle_audio" =>
          LET P == lastCmd'.sender
          IN /\ seats' = seats
             /\ conns' = conns
             /\ IF P \in DOMAIN users
                THEN users' = [users EXCEPT ![P].audioEnabled = ~users[P].audioEnabled]
                ELSE users' = users /\ out' = <<>>]_vars

\* a participant has just switched its audio back on next to another one
C17_Witness ==
    /\ lastCmd.kind = "toggle_audio"
    /\ IsUser(lastCmd.sender)
    /\ users[lastCmd.sender].audioEnabled
    /\ \E u \in DOMAIN users : ~users[u].audioEnabled

\* C18: a participant that sends a chat message is sent its own
\* chat_message exactly once, whatever its audio flag and whoever is in range.
C18_SenderGetsOwnChatOnce ==
    (lastCmd.kind = "chat" /\ lastCmd.hasPayload /\ IsUser(lastCmd.sender)) =>
        Cardinality(OutTo(lastCmd.sender, {"chat_message"})) = 1

\* an audio enabled participant has just chatted, and so has been sent its
\* message along with the audio enabled participant next to it
C18_Witness ==
    /\ lastCmd.kind = "chat"
    /\ IsUser(lastCmd.sender)
    /\ users[lastCmd.sender].audioEnabled
    /\ Len(out) = 2
    /\ OutTo(lastCmd.sender, {"chat_message"}) # {}

(***************************************************************************)
(* The gain model.                                                         *)
(***************************************************************************)
\* the distance between the listener and the participant that is heard
HeardAt == Distance(userPos, otherPos)

\* the position at distance k from the listener, on the listener's row
OnRow(k) == [x |-> userPos.x + k, y |-> userPos.y]

\* C19: the gain is 1.0 at distance 0, 0.0 at distance 80 and at every larger
\* distance, and a position of [0, 80] has at most the gain of every position
\* that is not further from the listener.
C19_GainEndsAndMonotone ==
    gain # <<>> =>
        /\ HeardAt = 0 => gain[1] = GainScale
        /\ HeardAt >= 80 => gain[1] = 0
        /\ HeardAt <= 80 =>
              \A k \in 0..HeardAt : calculateSpatialGain(userPos, OnRow(k)) >= gain[1]

\* the gain of a position off the listener's row and column, at distance 80
\* exactly, has been computed
C19_Witness ==
    /\ gain = <<0>>
    /\ HeardAt = 80
    /\ otherPos.x # userPos.x
    /\ otherPos.y # userPos.y

\* the gain g lies on the straight line from (a, va / 10) to (b, vb / 10)
OnLine(g, d, a, va, b, vb) ==
    g * 10 * (b - a) = GainScale * (va * (b - d) + vb * (d - a))

MalformedStep ==
    \/ lastCmd'.kind \in {"not_json", "unknown_type"}
    \/ /\ lastCmd'.kind \in {"join", "move", "chat", "signal"}
       /\ ~lastCmd'.hasPayload

\* C21: a message that is no valid JSON, has an unknown type or lacks the
\* payload its type needs changes no seat and no participant, sends nothing,
\* and leaves the sender's connection live.
C21_MalformedIgnored ==
    [][MalformedStep =>
          /\ seats' = seats
          /\ users' = users
          /\ out' = <<>>
          /\ conns' = conns
          /\ lastCmd'.sender \in conns']_vars

\* a participant's move without payload has just been ignored while
\* another participant is seated
C21_Witness ==
    /\ lastCmd.kind = "move"
    /\ ~lastCmd.hasPayload
    /\ IsUser(lastCmd.sender)
    /\ Cardinality(DOMAIN users) = 2
    /\ out = <<>>

\* a text that is no JSON has just been ignored, its sender still connected
C21_WitnessNotJson ==
    /\ lastCmd.kind = "not_json"
    /\ lastCmd.sender \in conns
    /\ IsUser(lastCmd.sender)

(***************************************************************************)
(* The client: its view of the room and its sessions.                      *)
(***************************************************************************)
\* the step is the client handling a room_state
SnapshotStep == \E q \in Peers, v \in {"absent", "on", "off"} : RoomState(q, v)

\* C22: the client's view of its own joined status changes only in a step
\* that handles a room_state; sending join changes nothing locally.
C22_JoinedOnlyBySnapshot ==
    [][isJoined' # isJoined => SnapshotStep]_vars

\* C23: when the negotiation that the snapshot handler started for a new
\* audio enabled participant has gone through, its audio_offer has been
\* sent to the relay.
C23_SnapshotOfferSent ==
    \A pc \in 1..Len(pcs) :
        (pcs[pc].caller = "handleMessage" /\ pcs[pc].stage = "ready") => pcs[pc].offerSent

\* C24: after the client has handled a room_state its session map holds
\* only peers that are audio enabled participants of that snapshot.
C24_SnapshotTearsDown ==
    [][SnapshotStep => \A p \in DOMAIN audioConnections' : roomUsers'[p] = "on"]_vars

\* the channels of peer q that are open
OpenChannels(q) == {pc \in 1..Len(pcs) : pcs[pc].userId = q /\ pcs[pc].open}

\* C25: at every moment at most one negotiation channel is open per remote
\* peer, and it is the one that the session record of that peer holds.
C25_OneOpenChannelPerPeer ==
    \A q \in Peers :
        /\ Cardinality(OpenChannels(q)) <= 1
        /\ \A pc \in OpenChannels(q) :
              q \in DOMAIN audioConnections /\ audioConnections[q].pc = pc

\* the step in which channel pc reports "failed" or "disconnected"
FailureStep(pc) == pc \in 1..Len(pcs) /\ ~pcs[pc].lost /\ pcs'[pc].lost

\* the channel and the sink that the record of peer q holds are shut: the
\* sink is stopped and detached, the nodes of the record are disconnected,
\* the channel is closed
TornDown(c, ps, sk) ==
    /\ ~ps[c.pc].open
    /\ c.el # 0 =>
          /\ ~sk[c.el].playing
          /\ ~sk[c.el].srcObject
          /\ c.source => ~sk[c.el].sourceConn
          /\ c.pannerNode => ~sk[c.el].pannerConn
          /\ c.gainNode => ~sk[c.el].gainConn

RemovalStep(q) ==
    /\ q \in DOMAIN audioConnections
    /\ \/ q \notin DOMAIN audioConnections'
       \/ audioConnections'[q].pc # audioConnections[q].pc

\* C27: whenever a session record leaves the map (close, failure,
\* renegotiation, unmute, replacement), its sink is stopped and detached from
\* its source, every node it holds is disconnected and its channel is closed.
C27_EveryRemovalTearsDown ==
    [][\A q \in Peers :
          RemovalStep(q) => TornDown(audioConnections[q], pcs', sinks')]_vars

\* without a throwing statement the teardown is cleanupAudioConnection
CleanupWithoutThrow ==
    \A q \in Peers :
        cleanupAudioConnectionThrowing(St, q, {}).st = cleanupAudioConnection(St, q)

\* C28: the teardown is idempotent: a second run for the same peer, with no
\* session made in between, runs no statement (so none can throw) and
\* leaves the session map, every channel and every sink as they are.
C28_TeardownIdempotent ==
    [][teardown'.again =>
          /\ teardown'.attempted = {}
          /\ audioConnections' = audioConnections
          /\ pcs' = pcs
          /\ sinks' = sinks]_vars

\* a built session was torn down, and torn down again
C28_Witness ==
    /\ teardown.again
    /\ teardown.userId \notin DOMAIN audioConnections
    /\ sinks[teardown.userId].created
    /\ ~sinks[teardown.userId].playing

\* C29: in a teardown every statement the record calls for (pause, detach,
\* disconnect of each node held, close, delete) is attempted, whichever
\* earlier statements throw.
C29_EveryStepAttempted == teardown.steps \subseteq teardown.attempted

\* the setup of the session on channel pc has failed: in createPeerConnection
\* or the negotiation of its caller, or in ontrack
SetupFailed(pc) == pcs[pc].stage = "failed" \/ pcs[pc].track = "failed"

\* C30: a session whose setup failed at any point is torn down whole: its
\* channel is closed, no record of the session map holds the channel or
\* the sink, and the sink is neither attached nor playing.
C30_FailedSetupTornDown ==
    \A pc \in 1..Len(pcs) :
        SetupFailed(pc) =>
            /\ ~pcs[pc].open
            /\ pc \notin HeldChannels
            /\ pc \notin HeldSinks
            /\ ~sinks[pc].srcObject
            /\ ~sinks[pc].playing

\* the rendering mode the fallback order calls for when the calls of can
\* succeed
ClaimedMode(can) ==
    IF {"source", "spatial"} \subseteq can THEN "spatial"
    ELSE IF {"source", "basic"} \subseteq can THEN "basic"
    ELSE "direct"

\* C31: once the sink is playing, ontrack ends with a session in exactly the
\* mode the order spatial, basic, direct calls for, whichever of the two
\* graph paths could not be built; no failure inside graph building removes
\* the session.
C31_GraphEndsInOneMode ==
    [][\A pc \in 1..MaxChannels, can \in SUBSET Capabilities :
          ({"play", "initialGain"} \subseteq can /\ OnTrackFinish(pc, GraphOutcome(can))) =>
              LET q == pcs[pc].userId
              IN /\ q \in DOMAIN audioConnections'
                 /\ audioConnections'[q].el = pc
                 /\ audioConnections'[q].connectionType = ClaimedMode(can)
                 /\ sinks'[pc].playing]_vars

FineGainAgrees == gain # <<>> => gain[1] * 100 = spatialGain(userPos, otherPos)

\* C38: for every two distinct seats of the grid the chat gate of the room
\* (distance <= MAX_HEARING_DISTANCE) admits the pair exactly if the gain
\* the client computes for the pair is greater than 0.
C38_ChatGateMatchesGain ==
    gain # <<>> =>
        ((gain[1] > 0) <=> calculateDistanceAtMost(userPos, otherPos, MAX_HEARING_DISTANCE))

\* the gain between opposite corners of the grid has been computed
C38_Witness ==
    /\ gain = <<0>>
    /\ userPos = initializeSeats[0].position
    /\ otherPos = initializeSeats[15].position

\* the farthest pair the gate admits (three seats along, two across) is heard
C38_WitnessAdmitted ==
    /\ gain # <<>>
    /\ gain[1] > 0
    /\ SquaredDistance(userPos, otherPos) = 5200

\* the step handles a room_state and renders it
SpatialSnapshotStep == spatial'.last = "room_state" /\ spatial' # spatial

AtLeast80(pos1, pos2) == SquaredDistance(pos1, pos2) >= 80 * 80

\* C34: a session whose gain node is in the path and whose peer is at
\* distance 80 or more has gain 0, and a snapshot never removes a session,
\* however far its peer is.
C34_FarPeerSilentSessionKept ==
    [][/\ \A q \in DOMAIN audioConnections' :
            (/\ q \in DOMAIN spatial'.users
             /\ audioConnections'[q].usingWebAudio
             /\ AtLeast80(spatial'.position, spatial'.users[q])) =>
                spatial'.nodes[q].gain = 0
       /\ SpatialSnapshotStep => DOMAIN audioConnections \subseteq DOMAIN audioConnections']_vars

\* C35: once ontrack has stored a session with its rendering mode, the
\* channel of the record is the one that delivered the track, and it is
\* open.
C35_AttachKeepsChannelOpen ==
    [][\A pc \in 1..MaxChannels :
          (/\ pc \in 1..Len(pcs)
           /\ pcs[pc].track = "playing"
           /\ pcs'[pc].track = "attached") =>
              LET q == pcs[pc].userId
              IN /\ q \in DOMAIN audioConnections'
                 /\ audioConnections'[q].pc = pc
                 /\ pcs'[pc].open]_vars

\* C39: handling a chat message or a negotiation message (audio_offer,
\* audio_answer, ice_candidate) changes no seat and no participant and
\* sends no room_state.
C39_ChatAndSignalingFrame ==
    [][lastCmd'.kind \in {"chat", "signal"} =>
          /\ seats' = seats
          /\ users' = users
          /\ conns' = conns
          /\ \A i \in 1..Len(out') : out'[i].type # "room_state"]_vars

\* a chat message of a participant has reached another participant
C39_Witness ==
    /\ lastCmd.kind = "chat"
    /\ Len(out) = 2
    /\ Cardinality(DOMAIN users) = 2

\* an offer of a participant has been relayed
C39_WitnessSignal ==
    /\ lastCmd.kind = "signal"
    /\ lastCmd.sigType = "audio_offer"
    /\ Len(out) = 1

\* peer q lost a channel to a failure and the map holds no record of q
LostSession(q) ==
    /\ q \notin DOMAIN audioConnections
    /\ \E f \in 1..Len(pcs) : pcs[f].userId = q /\ pcs[f].lost

\* the channels that the step has made for peer q
MadeFor(q) == {pc \in (Len(pcs) + 1)..Len(pcs') : pcs'[pc].userId = q}

\* the snapshot that follows the failure of the session of q, with q still
\* audio enabled and the client joined and audio enabled, makes exactly one
\* channel for q, an offerer, and the record of q holds it
ReinitiationMakesOneChannel ==
    [][\A q \in Peers :
          (SnapshotStep /\ LostSession(q) /\ isJoined /\ audioEnabled /\ roomUsers'[q] = "on") =>
              /\ Cardinality(MadeFor(q)) = 1
              /\ q \in DOMAIN audioConnections'
              /\ audioConnections'[q].pc \in MadeFor(q)
              /\ pcs'[audioConnections'[q].pc].role = "offerer"]_vars

\* the failure of a channel makes no channel, and a channel of the snapshot
\* handler is made in no other step than the handling of a room_state
NoReinitiationWithoutSnapshot ==
    [][/\ (\E pc \in 1..MaxChannels : FailureStep(pc)) => Len(pcs') = Len(pcs)
       /\ (\E pc \in (Len(pcs) + 1)..Len(pcs') : pcs'[pc].caller = "handleMessage") =>
              SnapshotStep]_vars

\* the channels the snapshot handler made for a peer after an earlier
\* channel of that peer was lost to a failure
Reinitiated ==
    {pc \in 1..Len(pcs) :
        /\ pcs[pc].caller = "handleMessage"
        /\ \E f \in 1..(pc - 1) : pcs[f].userId = pcs[pc].userId /\ pcs[f].lost}

\* C40: after the session of peer Q was torn down because its channel
\* failed, the channel that the next snapshot with Q audio enabled makes
\* for Q initiates a session toward Q: once its offer is made and applied
\* locally, the audio_offer has been sent to the relay.
C40_ReinitiationReachesPeer ==
    \A pc \in Reinitiated : pcs[pc].stage = "ready" => pcs[pc].offerSent

\* what the server holds now, as a room_state payload
ServerState == [seats |-> seats, users |-> users]

\* the payloads of the room_state messages that connection c has not
\* delivered yet, oldest first
Pending(c) ==
    LET rs == SelectSeq(inbox[c], LAMBDA m : m.type = "room_state")
    IN [i \in 1..Len(rs) |-> [seats |-> rs[i].seats, users |-> rs[i].users]]

\* the newest snapshot that the client of c has or will get
Newest(c) == IF Pending(c) = <<>> THEN view[c] ELSE Pending(c)[Len(Pending(c))]

\* the newest snapshot of every connected client is the state of the
\* server; with nothing left to deliver that is the client's roomState
NewestIsServerState == \A c \in conns : Newest(c) = ServerState

\* what a step does to a connection: it adds snapshots of the server's new
\* state behind the pending ones, or the client takes the oldest pending
\* message, a snapshot becoming its roomState, or the connection closes
InOrderStep ==
    \A c \in Conns :
        /\ Pending(c)' # Pending(c) =>
              \/ /\ Len(Pending(c)') = Len(Pending(c)) + 1
                 /\ SubSeq(Pending(c)', 1, Len(Pending(c))) = Pending(c)
                 /\ Newest(c)' = ServerState'
                 /\ view'[c] = view[c]
              \/ /\ Pending(c) # <<>>
                 /\ Pending(c)' = Tail(Pending(c))
                 /\ view'[c] = Head(Pending(c))
              \/ /\ c \notin conns'
                 /\ Pending(c)' = <<>>
                 /\ view'[c] = view[c]
        /\ Pending(c)' = Pending(c) => view'[c] = view[c]

\* C37: every connected client gets the room snapshots in the order the
\* server made them, each one the state of the server when it was sent, so
\* the roomState of a client is a state the server was in; and when nothing
\* is left to deliver, the roomState of every connected client is the seats
\* and participants the server holds.
C37_SnapshotsInOrder == []NewestIsServerState /\ [][InOrderStep]_vars

\* both clients have caught up with a room of two participants
C37_Witness ==
    /\ conns = Conns
    /\ Cardinality(DOMAIN users) = 2
    /\ \A c \in conns : inbox[c] = <<>> /\ view[c] = ServerState

\* a client lags two snapshots behind the server
C37_WitnessLag ==
    \E c \in conns :
        /\ Len(Pending(c)) = 2
        /\ Pending(c)[1] # Pending(c)[2]
        /\ view[c] # ServerState
        /\ view[c] # NoView

\* the offer of channel a of client i was answered by channel b of the
\* other client, and both descriptions are applied on both channels
Completed(i, a, b) ==
    LET ca == pair[i].chans[a]
        cb == pair[Other(i)].chans[b]
    IN /\ ca.local = OfferOf(a)
       /\ cb.remote = OfferOf(a)
       /\ cb.local = AnswerOf(b, a)
       /\ ca.remote = AnswerOf(b, a)

\* each client's record of the other holds a channel, and the exchange
\* between these two channels is complete
Established ==
    /\ \A i \in Pair : pair[i].record # 0
    /\ \E i \in Pair : Completed(i, pair[i].record, pair[Other(i)].record)

\* both clients are connected and joined, and the server has both as audio
\* enabled participants
BothJoined ==
    \A i \in Pair :
        /\ i \in conns
        /\ pair[i].isJoined
        /\ i \in DOMAIN users
        /\ users[i].audioEnabled

\* C36: when both participants are joined and audio enabled, and the server
\* and both clients handle every message, each eventually holds a session
\* for the other whose offer and answer were exchanged between the two
\* channels the sessions hold.
C36_PairEstablishes == BothJoined ~> Established

====
